---- MODULE Spec2Model ----
(***************************************************************************)
(* A model of the font-subset crate: OpenType parsing (font/mod.rs,        *)
(* font/cmap.rs, font/glyph.rs), subsetting (subset.rs) and serialization  *)
(* (write/mod.rs).                                                         *)
(*                                                                         *)
(* Bytes are naturals in 0..255 and byte buffers are sequences of bytes.   *)
(* A u16 is a natural in 0..65535.  A u32 is a pair <<hi, lo>> of its two  *)
(* 16-bit halves, so that 32-bit wrapping arithmetic keeps its width.      *)
(* A usize is a natural.                                                   *)
(***************************************************************************)
EXTENDS Integers, Sequences, FiniteSets, TLC

VARIABLES
    \* ---- Base-128 varint (write/mod.rs, uint_base128_len / write_uint_base128)
    b128_pc,      \* "idle" | "start" | "written"
    b128_val,     \* the u32 being encoded
    b128_buf,     \* the buffer written to
    b128_old,     \* the buffer's content before the write
    \* ---- cmap re-encoder (write/mod.rs CmapTable, font/cmap.rs)
    cm_pc,        \* "idle" | "start" | "built" | "written" | "parsed"
    cm_map,       \* the (char, glyph) pairs, strictly ascending by char
    cm_groups,    \* CmapTable::create_coverage(cm_map).groups
    cm_table,     \* CmapTable::from_map(cm_map)
    cm_bytes,     \* the bytes CmapTable::write produced
    cm_parsed,    \* CmapTable::parse(cm_bytes)
    \* ---- subsetting and serialization (subset.rs, write/mod.rs, font/mod.rs)
    phase,        \* "idle" | "input" | "source_rejected" | "source_panic" | "source_parsed"
                  \* | "build" | "error" | "stack_overflow"
                  \* | "written" | "woff2_written" | "write_panic" | "reparsed"
    fontId,       \* which source font file is read
    sourceFont,   \* Font::parse of the source font file
    pending,      \* retained chars not yet pushed, ascending
    retained,     \* the retained char set, as an ascending sequence
    subset,       \* FontSubset: char_map, old_to_new_glyph_idx, glyphs
    output,       \* the bytes to_opentype returned
    reparsed,     \* Font::parse(output)
    woff2,        \* the bytes to_woff2 returned
    \* ---- loca writer (write/mod.rs, LocaTable::write)
    loca_pc,        \* "idle" | "start" | "written" | "write_panic"
    loca_locations, \* the glyph locations: 0 and the end of every glyph
    loca_written,   \* the format LocaTable::write returned and its bytes
    \* ---- FontWriter and TableDataReader (write/mod.rs, write/brotli.rs)
    fw_pc,        \* "idle" | "writing" | "adjusted" | "reading" | "panic"
    fw,           \* the FontWriter: tables, table_data
    rd,           \* the TableDataReader: data_offset, table_idx, pos_in_table
    rd_out,       \* the bytes the calls of read yielded so far
    rd_last,      \* what the last call of read returned, -1 before the first
    rd_eof,       \* a call of read has returned 0
    \* ---- cmap reader (font/cmap.rs)
    cr_pc,        \* "idle" | "start" | "parsed" | "rejected" | "mapped"
    cr_table,     \* the bytes of a cmap table
    cr_parsed,    \* CmapTable::parse(cr_table)
    cr_char,      \* the char looked up last
    cr_glyph,     \* what CmapTable::map_char returned for it
    \* ---- hmtx writer and reader (write/mod.rs, font/mod.rs)
    hm_pc,        \* "idle" | "start" | "written"
    hm_glyphs,    \* the glyphs of a subset: advance and lsb
    hm_written    \* the numberOfHMetrics write_for_glyphs returned and its bytes

b128vars == <<b128_pc, b128_val, b128_buf, b128_old>>
cmvars   == <<cm_pc, cm_map, cm_groups, cm_table, cm_bytes, cm_parsed>>
subvars  == <<phase, fontId, sourceFont, pending, retained, subset, output, reparsed,
              woff2>>
locavars == <<loca_pc, loca_locations, loca_written>>
fwvars   == <<fw_pc, fw, rd, rd_out, rd_last, rd_eof>>
crvars   == <<cr_pc, cr_table, cr_parsed, cr_char, cr_glyph>>
hmvars   == <<hm_pc, hm_glyphs, hm_written>>
vars     == <<b128vars, cmvars, subvars, locavars, fwvars, crvars, hmvars>>

(***************************************************************************)
(* Integer helpers.                                                        *)
(***************************************************************************)
Pow2(n) == 2 ^ n

Min(a, b) == IF a < b THEN a ELSE b

\* u16::ilog2 / u32::ilog2 for a natural n >= 1 below 2^16
RECURSIVE ilog2(_)
ilog2(n) == IF n < 2 THEN 0 ELSE 1 + ilog2(n \div 2)

\* value.to_be_bytes() for a u16
u16_be_bytes(v) == << v \div 256, v % 256 >>

\* u16::from_be_bytes
u16_from_be_bytes(a, b) == a * 256 + b

(***************************************************************************)
(* u32 as <<hi, lo>>.                                                      *)
(***************************************************************************)
U32(hi, lo) == << hi, lo >>

\* u32::from / u32::try_from of a natural below 2^31
U32FromInt(n) == << n \div 65536, n % 65536 >>

\* `as usize` of a u32; values of 2^31 and more exceed every buffer of the
\* model and are all mapped to 2^31 - 1
U32ToInt(v) == IF v[1] >= 32768 THEN 2147483647 ELSE v[1] * 65536 + v[2]

\* u32::wrapping_add
wrapping_add(a, b) ==
    LET lo == a[2] + b[2]
        hi == a[1] + b[1] + (lo \div 65536)
    IN  << hi % 65536, lo % 65536 >>

\* u32::wrapping_sub
wrapping_sub(a, b) ==
    LET lo == a[2] - b[2]
        borrow == IF lo < 0 THEN 1 ELSE 0
        hi == a[1] - b[1] - borrow
    IN  << (hi + 65536) % 65536, (lo + 65536) % 65536 >>

\* u32::from_be_bytes
u32_from_be_bytes(a, b, c, d) == << a * 256 + b, c * 256 + d >>

\* value.to_be_bytes() for a u32
u32_be_bytes(v) == << v[1] \div 256, v[1] % 256, v[2] \div 256, v[2] % 256 >>

\* bit i (0 = least significant) of a u32
U32Bit(v, i) == IF i < 16 THEN (v[2] \div Pow2(i)) % 2
                ELSE (v[1] \div Pow2(i - 16)) % 2

\* val >= 1 << k, for 0 < k < 32
U32GeBit(v, k) == IF k >= 16 THEN v[1] >= Pow2(k - 16)
                  ELSE v[1] > 0 \/ v[2] >= Pow2(k)

\* (val >> k) as u8: bits k .. k+7 of val
RECURSIVE ShrAsU8From(_, _, _)
ShrAsU8From(v, k, j) ==
    IF j > 7 \/ k + j > 31 THEN 0
    ELSE U32Bit(v, k + j) * Pow2(j) + ShrAsU8From(v, k, j + 1)

ShrAsU8(v, k) == ShrAsU8From(v, k, 0)

\* u32::ilog2 for a value that is not 0
U32ilog2(v) == IF v[1] > 0 THEN 16 + ilog2(v[1]) ELSE ilog2(v[2])

\* a | b for bytes, where a is 0x80 (write_uint_base128 only ors 0x80 in)
Or0x80(b) == IF b >= 128 THEN b ELSE b + 128

(***************************************************************************)
(* write/mod.rs: write_u16, write_u32                                      *)
(***************************************************************************)
write_u16(writer, value) == writer \o u16_be_bytes(value)

write_u32(writer, value) == writer \o u32_be_bytes(value)

\* write_u32 of a usize below 2^31 (after try_into / u32::from)
write_u32_int(writer, n) == write_u32(writer, U32FromInt(n))

(***************************************************************************)
(* write/mod.rs: Base-128 varint                                           *)
(***************************************************************************)
uint_base128_len(val) ==
    IF val = <<0, 0>> THEN 1 ELSE (U32ilog2(val) \div 7) + 1

\* a variant that compares strictly: `val > 1 << k`
write_uint_base128_strict(buffer, val) ==
    LET gt(k) == U32GeBit(val, k) /\ val # U32FromInt(Pow2(k))
        b1 == IF gt(28) THEN buffer \o << Or0x80(ShrAsU8(val, 28)) >> ELSE buffer
        b2 == IF gt(21) THEN b1 \o << Or0x80(ShrAsU8(val, 21)) >> ELSE b1
        b3 == IF gt(14) THEN b2 \o << Or0x80(ShrAsU8(val, 14)) >> ELSE b2
        b4 == IF gt(7) THEN b3 \o << Or0x80(ShrAsU8(val, 7)) >> ELSE b3
    IN  b4 \o << val[2] % 128 >>

write_uint_base128(buffer, val) ==
    LET b1 == IF U32GeBit(val, 28)
              THEN buffer \o << Or0x80(ShrAsU8(val, 28)) >> ELSE buffer
        b2 == IF U32GeBit(val, 21)
              THEN b1 \o << Or0x80(ShrAsU8(val, 21)) >> ELSE b1
        b3 == IF U32GeBit(val, 14)
              THEN b2 \o << Or0x80(ShrAsU8(val, 14)) >> ELSE b2
        b4 == IF U32GeBit(val, 7)
              THEN b3 \o << Or0x80(ShrAsU8(val, 7)) >> ELSE b3
    IN  b4 \o << val[2] % 128 >>

(***************************************************************************)
(* Results.  Ok carries a value, Err a ParseErrorKind / MapError, Panic    *)
(* the message of a failed expect / unwrap / slice index.                  *)
(***************************************************************************)
R_Ok(v) == [tag |-> "Ok", v |-> v, kind |-> ""]

R_Err(k) == [tag |-> "Err", v |-> 0, kind |-> k]

R_Panic(k) == [tag |-> "Panic", v |-> 0, kind |-> k]

IsOk(r) == r.tag = "Ok"

\* the `?` operator: the error (or panic) r carries, or K of the value of r
Try(r, K(_)) == IF ~IsOk(r) THEN r ELSE K(r.v)

\* `let x = v;` followed by K, which uses x
Let(v, K(_)) == K(v)

(***************************************************************************)
(* font/mod.rs: Cursor.  A cursor is modelled by its remaining bytes; the  *)
(* absolute offset and the table tag only label errors.                    *)
(***************************************************************************)
\* the bytes from offset n (0-based) to the end
BytesFrom(bytes, n) == SubSeq(bytes, n + 1, Len(bytes))

\* bytes[a..b] (0-based, half-open)
Slice(bytes, a, b) == SubSeq(bytes, a + 1, b)

\* the big-endian u16 at byte offset off
u16_at(bytes, off) == u16_from_be_bytes(bytes[off + 1], bytes[off + 2])

\* the big-endian u32 at byte offset off
u32_at(bytes, off) ==
    u32_from_be_bytes(bytes[off + 1], bytes[off + 2], bytes[off + 3], bytes[off + 4])

\* Cursor::skip
Cursor_skip(bytes, n) ==
    IF Len(bytes) < n THEN R_Err("UnexpectedEof") ELSE R_Ok(BytesFrom(bytes, n))

\* Cursor::read_u16: the value and the remaining bytes
Cursor_read_u16(bytes) ==
    IF Len(bytes) < 2 THEN R_Err("UnexpectedEof")
    ELSE R_Ok([val |-> u16_at(bytes, 0), rest |-> BytesFrom(bytes, 2)])

\* Cursor::read_u32: the value and the remaining bytes
Cursor_read_u32(bytes) ==
    IF Len(bytes) < 4 THEN R_Err("UnexpectedEof")
    ELSE R_Ok([val |-> u32_at(bytes, 0), rest |-> BytesFrom(bytes, 4)])

\* Cursor::range(a..b): slice::get fails when a > b or b > len
Cursor_range(bytes, a, b) ==
    IF a > b \/ b > Len(bytes) THEN R_Err("RangeOutOfBounds")
    ELSE R_Ok(Slice(bytes, a, b))

(***************************************************************************)
(* font/cmap.rs: the cmap table                                            *)
(***************************************************************************)
SegmentWithDelta(s, e, d, r) ==
    [start_code |-> s, end_code |-> e, id_delta |-> d, id_range_offset |-> r]

SequentialMapGroup(s, e, g) ==
    [start_char_code |-> s, end_char_code |-> e, start_glyph_id |-> g]

\* CmapTable::Deltas(SegmentDeltas { segments, glyph_id_array })
CmapDeltas(segments, glyph_id_array) ==
    [kind |-> "Deltas", segments |-> segments,
     glyph_id_array |-> glyph_id_array, groups |-> <<>>]

\* CmapTable::Coverage(SegmentedCoverage { groups })
CmapCoverage(groups) ==
    [kind |-> "Coverage", segments |-> <<>>, glyph_id_array |-> <<>>,
     groups |-> groups]

\* slice::binary_search_by_key(..).unwrap_or_else(|pos| pos) over keys sorted
\* ascending without repetition: the 0-based index of the first key >= c,
\* or the length when there is none
RECURSIVE binary_search_from(_, _, _)
binary_search_from(keys, c, i) ==
    IF i >= Len(keys) THEN Len(keys)
    ELSE IF keys[i + 1] >= c THEN i
    ELSE binary_search_from(keys, c, i + 1)

binary_search_by_key(keys, c) == binary_search_from(keys, c, 0)

\* SequentialMapGroup::map_unchecked
map_unchecked(group, ch) == ch - group.start_char_code + group.start_glyph_id

\* a variant that adds the delta without wrapping to 16 bits
SegmentDeltas_map_char_nowrap(self, c) ==
    IF c > 65535 THEN R_Err("CharTooLarge")
    ELSE
    LET segment_idx ==
            binary_search_by_key([i \in 1..Len(self.segments) |->
                                      self.segments[i].end_code], c)
    IN  IF segment_idx >= Len(self.segments) THEN R_Panic("index out of bounds")
        ELSE LET segment == self.segments[segment_idx + 1] IN
             IF segment.start_code > c THEN R_Ok(0)
             ELSE R_Ok(segment.id_delta + c)

\* SegmentDeltas::map_char
SegmentDeltas_map_char(self, c) ==
    IF c > 65535 THEN R_Err("CharTooLarge")
    ELSE
    LET segment_idx ==
            binary_search_by_key([i \in 1..Len(self.segments) |->
                                      self.segments[i].end_code], c)
    IN  IF segment_idx >= Len(self.segments) THEN R_Panic("index out of bounds")
        ELSE
        LET segment == self.segments[segment_idx + 1] IN
        IF segment.start_code > c THEN R_Ok(0)
        ELSE IF segment.id_range_offset = 0
        THEN R_Ok((segment.id_delta + c) % 65536)
        ELSE
        LET byte_offset == 2 * segment_idx + segment.id_range_offset
                           + 2 * (c - segment.start_code)
            shifted == byte_offset - 2 * Len(self.segments)
        IN  IF byte_offset < 2 * Len(self.segments) THEN R_Err("InvalidOffset")
            ELSE IF shifted + 2 > Len(self.glyph_id_array)
            THEN R_Err("InvalidOffset")
            ELSE R_Ok((segment.id_delta + u16_at(self.glyph_id_array, shifted))
                      % 65536)

\* SegmentedCoverage::map_char
SegmentedCoverage_map_char(self, ch) ==
    LET group_idx ==
            binary_search_by_key([i \in 1..Len(self.groups) |->
                                      self.groups[i].end_char_code], ch)
    IN  IF group_idx >= Len(self.groups) THEN R_Ok(0)
        ELSE
        LET group == self.groups[group_idx + 1]
            glyph_id == ch - group.start_char_code + group.start_glyph_id
        IN  IF group.start_char_code > ch THEN R_Ok(0)
            ELSE IF glyph_id > 65535 THEN R_Panic("glyph ID exceeds u16::MAX")
            ELSE R_Ok(glyph_id)

\* CmapTable::map_char
CmapTable_map_char(self, ch) ==
    IF self.kind = "Deltas" THEN SegmentDeltas_map_char(self, ch)
    ELSE SegmentedCoverage_map_char(self, ch)

(***************************************************************************)
(* write/mod.rs: CmapTable::create_coverage / from_map.  A map is a        *)
(* sequence of <<char, glyph index>> pairs.                                *)
(***************************************************************************)
\* the loop of create_coverage over map[i..], with the groups flushed so far
\* and the current group
RECURSIVE create_coverage_loop(_, _, _, _)
create_coverage_loop(map, i, groups, current_group) ==
    IF i > Len(map) THEN Append(groups, current_group)
    ELSE
    LET ch == map[i][1]
        glyph_idx == map[i][2]
    IN  IF ch = current_group.end_char_code + 1
           /\ glyph_idx = map_unchecked(current_group, ch)
        THEN create_coverage_loop(map, i + 1, groups,
                 [current_group EXCEPT !.end_char_code = @ + 1])
        ELSE create_coverage_loop(map, i + 1, Append(groups, current_group),
                 SequentialMapGroup(ch, ch, glyph_idx))

\* a variant that extends the group on an adjacent char alone
RECURSIVE create_coverage_loop_nogid(_, _, _, _)
create_coverage_loop_nogid(map, i, groups, current_group) ==
    IF i > Len(map) THEN Append(groups, current_group)
    ELSE
    LET ch == map[i][1]
        glyph_idx == map[i][2]
    IN  IF ch = current_group.end_char_code + 1
        THEN create_coverage_loop_nogid(map, i + 1, groups,
                 [current_group EXCEPT !.end_char_code = @ + 1])
        ELSE create_coverage_loop_nogid(map, i + 1, Append(groups, current_group),
                 SequentialMapGroup(ch, ch, glyph_idx))

create_coverage_nogid(map) ==
    IF map = <<>> THEN <<>>
    ELSE create_coverage_loop_nogid(map, 2, <<>>,
             SequentialMapGroup(map[1][1], map[1][1], map[1][2]))

\* CmapTable::create_coverage: the groups of the SegmentedCoverage
create_coverage(map) ==
    IF map = <<>> THEN <<>>
    ELSE create_coverage_loop(map, 2, <<>>,
             SequentialMapGroup(map[1][1], map[1][1], map[1][2]))

\* the closure of from_map turning a group into a segment (`as u16` casts)
delta_segment(group) ==
    LET start_code == group.start_char_code % 65536 IN
    SegmentWithDelta(start_code, group.end_char_code % 65536,
        ((group.start_glyph_id % 65536) - start_code + 65536) % 65536, 0)

\* a variant whose sentinel maps U+FFFF to itself
sentinel_segment_nodelta == SegmentWithDelta(65535, 65535, 0, 0)

\* the segment with start_code == end_code == 0xffff closing the list
sentinel_segment == SegmentWithDelta(65535, 65535, 1, 0)

\* a variant that takes every BMP char, U+FFFF included, as encodable
from_map_le(map) ==
    LET coverage == create_coverage(map) IN
    IF map = <<>> \/ map[Len(map)][1] <= 65535
    THEN CmapDeltas([i \in 1..Len(coverage) + 1 |->
                        IF i <= Len(coverage) THEN delta_segment(coverage[i])
                        ELSE sentinel_segment], <<>>)
    ELSE CmapCoverage(coverage)

\* CmapTable::from_map
from_map(map) ==
    LET coverage == create_coverage(map)
        can_be_encoded_as_deltas == map = <<>> \/ map[Len(map)][1] < 65535
    IN  IF can_be_encoded_as_deltas
        THEN CmapDeltas([i \in 1..Len(coverage) + 1 |->
                            IF i <= Len(coverage) THEN delta_segment(coverage[i])
                            ELSE sentinel_segment], <<>>)
        ELSE CmapCoverage(coverage)

(***************************************************************************)
(* write/mod.rs: CmapTable::write, SegmentDeltas::write,                   *)
(* SegmentedCoverage::write.  A write returns R_Ok(buffer) or R_Panic.     *)
(***************************************************************************)
\* the concatenation of f[1], ..., f[n], each a byte sequence
RECURSIVE ConcatRange(_, _, _)
ConcatRange(f, lo, hi) ==
    IF hi <= lo THEN <<>>
    ELSE IF hi = lo + 1 THEN f[hi]
    ELSE ConcatRange(f, lo, (lo + hi) \div 2) \o ConcatRange(f, (lo + hi) \div 2, hi)

Concat(f) == ConcatRange(f, 0, Len(f))

SegmentDeltas_subtable_len(self) == 16 + 8 * Len(self.segments)

SegmentDeltas_write(self, writer) ==
    LET n == Len(self.segments)
        segment_count == n
        entry_selector == ilog2(segment_count)
        search_range == Pow2(entry_selector + 1)
        range_shift == 2 * segment_count - search_range
        column(field) == Concat([i \in 1..n |-> u16_be_bytes(self.segments[i][field])])
    IN  IF SegmentDeltas_subtable_len(self) > 65535
        THEN R_Panic("subtable_len overflow")
        ELSE IF n = 0 THEN R_Panic("ilog2 of zero")
        ELSE R_Ok(writer
                  \o u16_be_bytes(4)
                  \o u16_be_bytes(SegmentDeltas_subtable_len(self))
                  \o u16_be_bytes(0)
                  \o u16_be_bytes(2 * segment_count)
                  \o u16_be_bytes(search_range)
                  \o u16_be_bytes(entry_selector)
                  \o u16_be_bytes(range_shift)
                  \o column("end_code")
                  \o u16_be_bytes(0)
                  \o column("start_code")
                  \o column("id_delta")
                  \o column("id_range_offset")
                  \o self.glyph_id_array)

SegmentedCoverage_subtable_len(self) == 16 + 12 * Len(self.groups)

SegmentedCoverage_write(self, writer) ==
    R_Ok(writer
         \o u16_be_bytes(12)
         \o u16_be_bytes(0)
         \o u32_be_bytes(U32FromInt(SegmentedCoverage_subtable_len(self)))
         \o u32_be_bytes(U32FromInt(0))
         \o u32_be_bytes(U32FromInt(Len(self.groups)))
         \o Concat([i \in 1..Len(self.groups) |->
                u32_be_bytes(U32FromInt(self.groups[i].start_char_code))
                \o u32_be_bytes(U32FromInt(self.groups[i].end_char_code))
                \o u32_be_bytes(U32FromInt(self.groups[i].start_glyph_id))]))

UNICODE_PLATFORM == 0

WINDOWS_PLATFORM == 3

CmapTable_write(self, writer) ==
    LET encoding_id == IF self.kind = "Deltas" THEN 3 ELSE 4
        head == writer
                \o u16_be_bytes(0)
                \o u16_be_bytes(1)
                \o u16_be_bytes(UNICODE_PLATFORM)
                \o u16_be_bytes(encoding_id)
                \o u32_be_bytes(U32FromInt(12))
    IN  IF self.kind = "Deltas" THEN SegmentDeltas_write(self, head)
        ELSE SegmentedCoverage_write(self, head)

(***************************************************************************)
(* font/cmap.rs: SegmentDeltas::parse, SegmentedCoverage::parse,           *)
(* CmapTable::parse.  Each returns R_Ok(table) or R_Err(kind).             *)
(***************************************************************************)
SegmentDeltas_parse(cursor) ==
    IF Len(cursor) < 2 THEN R_Err("UnexpectedEof")
    ELSE IF u16_at(cursor, 0) # 4 THEN R_Err("UnexpectedTableFormat")
    ELSE IF Len(cursor) < 4 THEN R_Err("UnexpectedEof")
    ELSE IF u16_at(cursor, 2) < 4 THEN R_Err("UnexpectedEof")
    ELSE
    LET remaining_len == u16_at(cursor, 2) - 4
        ranged == Cursor_range(BytesFrom(cursor, 4), 0, remaining_len)
    IN  IF ~IsOk(ranged) THEN ranged
        ELSE
        LET c == ranged.v IN
        \* language, segCountX2, searchRange, entrySelector, rangeShift
        IF Len(c) < 10 THEN R_Err("UnexpectedEof")
        ELSE
        LET segment_count == u16_at(c, 2) \div 2
            vec_len == 2 * segment_count
            body == BytesFrom(c, 10)
            \* end_codes, reserved padding, start_codes, id_deltas,
            \* id_range_offsets
            end_codes == 0
            start_codes == vec_len + 2
            id_deltas == 2 * vec_len + 2
            id_range_offsets == 3 * vec_len + 2
        IN  IF Len(body) < vec_len THEN R_Err("RangeOutOfBounds")
            ELSE IF Len(body) < vec_len + 2 THEN R_Err("UnexpectedEof")
            ELSE IF Len(body) < 4 * vec_len + 2 THEN R_Err("RangeOutOfBounds")
            ELSE R_Ok(CmapDeltas(
                     [i \in 1..segment_count |->
                         SegmentWithDelta(
                             u16_at(body, start_codes + 2 * (i - 1)),
                             u16_at(body, end_codes + 2 * (i - 1)),
                             u16_at(body, id_deltas + 2 * (i - 1)),
                             u16_at(body, id_range_offsets + 2 * (i - 1)))],
                     BytesFrom(body, 4 * vec_len + 2)))

SegmentedCoverage_parse(cursor) ==
    IF Len(cursor) < 2 THEN R_Err("UnexpectedEof")
    ELSE IF u16_at(cursor, 0) # 12 THEN R_Err("UnexpectedTableFormat")
    ELSE IF Len(cursor) < 8 THEN R_Err("UnexpectedEof")
    ELSE IF U32ToInt(u32_at(cursor, 4)) < 8 THEN R_Err("UnexpectedEof")
    ELSE
    LET remaining_len == U32ToInt(u32_at(cursor, 4)) - 8
        ranged == Cursor_range(BytesFrom(cursor, 8), 0, remaining_len)
    IN  IF ~IsOk(ranged) THEN ranged
        ELSE
        LET c == ranged.v IN
        \* language, numGroups
        IF Len(c) < 8 THEN R_Err("UnexpectedEof")
        ELSE
        LET num_groups == U32ToInt(u32_at(c, 4))
            body == BytesFrom(c, 8)
        IN  IF Len(body) \div 12 < num_groups THEN R_Err("UnexpectedEof")
            ELSE R_Ok(CmapCoverage(
                     [i \in 1..num_groups |->
                         SequentialMapGroup(
                             U32ToInt(u32_at(body, 12 * (i - 1))),
                             U32ToInt(u32_at(body, 12 * (i - 1) + 4)),
                             U32ToInt(u32_at(body, 12 * (i - 1) + 8)))]))

\* a variant that takes the Windows Symbol encoding (3, 0) for a candidate
expected_table_format_symbol(platform_id, encoding_id) ==
    IF (platform_id = UNICODE_PLATFORM /\ encoding_id = 3)
       \/ (platform_id = WINDOWS_PLATFORM /\ encoding_id \in {0, 1})
    THEN "SegmentDeltas"
    ELSE IF (platform_id = UNICODE_PLATFORM /\ encoding_id = 4)
            \/ (platform_id = WINDOWS_PLATFORM /\ encoding_id = 10)
    THEN "SegmentedCoverage"
    ELSE "unsupported"

\* the table format CmapTable::parse expects for (platform_id, encoding_id)
expected_table_format(platform_id, encoding_id) ==
    IF (platform_id = UNICODE_PLATFORM /\ encoding_id = 3)
       \/ (platform_id = WINDOWS_PLATFORM /\ encoding_id = 1)
    THEN "SegmentDeltas"
    ELSE IF (platform_id = UNICODE_PLATFORM /\ encoding_id = 4)
            \/ (platform_id = WINDOWS_PLATFORM /\ encoding_id = 10)
    THEN "SegmentedCoverage"
    ELSE "unsupported"

\* the loop of CmapTable::parse over the encoding records i .. num_tables;
\* this is R_Err("none") while no subtable was kept, else R_Ok(table)
RECURSIVE CmapTable_parse_loop(_, _, _, _)
CmapTable_parse_loop(table_cursor, i, num_tables, this) ==
    IF i > num_tables
    THEN IF IsOk(this) THEN this ELSE R_Err("NoSupportedCmap")
    ELSE
    LET rec == 4 + 8 * (i - 1) IN
    IF Len(table_cursor) < rec + 8 THEN R_Err("UnexpectedEof")
    ELSE
    LET platform_id == u16_at(table_cursor, rec)
        encoding_id == u16_at(table_cursor, rec + 2)
        offset == U32ToInt(u32_at(table_cursor, rec + 4))
        format == expected_table_format(platform_id, encoding_id)
    IN  IF format = "unsupported" \/ IsOk(this)
        THEN CmapTable_parse_loop(table_cursor, i + 1, num_tables, this)
        ELSE
        LET subtable == Cursor_skip(table_cursor, offset) IN
        IF ~IsOk(subtable) THEN subtable
        ELSE
        LET parsed == IF format = "SegmentDeltas"
                      THEN SegmentDeltas_parse(subtable.v)
                      ELSE SegmentedCoverage_parse(subtable.v)
        IN  IF ~IsOk(parsed) THEN parsed
            ELSE CmapTable_parse_loop(table_cursor, i + 1, num_tables, parsed)

CmapTable_parse(cursor) ==
    IF Len(cursor) < 2 THEN R_Err("UnexpectedEof")
    ELSE IF u16_at(cursor, 0) # 0 THEN R_Err("UnexpectedTableVersion")
    ELSE IF Len(cursor) < 4 THEN R_Err("UnexpectedEof")
    ELSE CmapTable_parse_loop(cursor, 1, u16_at(cursor, 2), R_Err("none"))

(***************************************************************************)
(* Specification SpecB128: write_uint_base128 applied to sampled u32       *)
(* values, appending to a buffer that may already hold bytes.              *)
(***************************************************************************)
\* the low halves 0 .. MaxSmallVal are all sampled
MaxSmallVal == 130

B128HiSamples == {0, 1, 31, 32, 33, 4095, 4096, 4097, 32768, 65535}

B128LoSamples == (0..MaxSmallVal) \cup {16383, 16384, 16385, 32767, 32768, 65535}

B128Inputs == {U32(h, l) : h \in B128HiSamples, l \in B128LoSamples}

B128Idle ==
    /\ b128_pc = "idle"
    /\ b128_val = <<0, 0>>
    /\ b128_buf = <<>>
    /\ b128_old = <<>>

CmIdle ==
    /\ cm_pc = "idle"
    /\ cm_map = <<>>
    /\ cm_groups = <<>>
    /\ cm_table = CmapCoverage(<<>>)
    /\ cm_bytes = <<>>
    /\ cm_parsed = R_Err("none")

SubIdle ==
    /\ phase = "idle"
    /\ fontId = 0
    /\ sourceFont = R_Err("none")
    /\ pending = <<>>
    /\ retained = <<>>
    /\ subset = [char_map |-> <<>>, old_to_new_glyph_idx |-> <<>>, glyphs |-> <<>>]
    /\ output = <<>>
    /\ reparsed = R_Err("none")
    /\ woff2 = <<>>

LocaIdle ==
    /\ loca_pc = "idle"
    /\ loca_locations = <<>>
    /\ loca_written = [format |-> "Short", bytes |-> <<>>, head |-> <<>>]

FwIdle ==
    /\ fw_pc = "idle"
    /\ fw = [tables |-> <<>>, table_data |-> <<>>]
    /\ rd = [data_offset |-> 0, table_idx |-> 0, pos_in_table |-> 0]
    /\ rd_out = <<>>
    /\ rd_last = -1
    /\ rd_eof = FALSE

CrIdle ==
    /\ cr_pc = "idle"
    /\ cr_table = <<>>
    /\ cr_parsed = R_Err("none")
    /\ cr_char = 0
    /\ cr_glyph = R_Err("none")

HmIdle ==
    /\ hm_pc = "idle"
    /\ hm_glyphs = <<>>
    /\ hm_written = [number_of_h_metrics |-> 0, bytes |-> <<>>]

InitB128 ==
    /\ b128_pc = "start"
    /\ b128_val \in B128Inputs
    /\ b128_old \in {<<>>, <<128>>}
    /\ b128_buf = b128_old
    /\ CmIdle
    /\ SubIdle
    /\ LocaIdle
    /\ FwIdle
    /\ CrIdle
    /\ HmIdle

\* write_uint_base128(&mut buffer, val)
B128Write ==
    /\ b128_pc = "start"
    /\ b128_buf' = write_uint_base128(b128_buf, b128_val)
    /\ b128_pc' = "written"
    /\ UNCHANGED <<b128_val, b128_old, cmvars, subvars, locavars, fwvars, crvars, hmvars>>

NextB128 == B128Write

SpecB128 == InitB128 /\ [][NextB128]_vars

\* the bytes the write appended
B128Out == BytesFrom(b128_buf, Len(b128_old))

\* decoding big-endian 7-bit groups into a u32
RECURSIVE B128DecodeFrom(_, _, _)
B128DecodeFrom(bytes, i, acc) ==
    IF i > Len(bytes) THEN acc
    ELSE B128DecodeFrom(bytes, i + 1,
             << (acc[1] * 128 + (acc[2] \div 512)) % 65536,
                (acc[2] % 512) * 128 + (bytes[i] % 128) >>)

B128Decode(bytes) == B128DecodeFrom(bytes, 1, <<0, 0>>)

B128Golden ==
    /\ write_uint_base128(<<>>, U32FromInt(0)) = <<0>>
    /\ write_uint_base128(<<>>, U32FromInt(1)) = <<1>>
    /\ write_uint_base128(<<>>, U32FromInt(127)) = <<127>>
    /\ write_uint_base128(<<>>, U32FromInt(128)) = <<129, 0>>
    /\ write_uint_base128(<<>>, U32FromInt(129)) = <<129, 1>>
    /\ write_uint_base128(<<>>, U32FromInt(16383)) = <<255, 127>>
    /\ write_uint_base128(<<>>, U32FromInt(16384)) = <<129, 128, 0>>

\* C10: Base-128 round trip.  After write_uint_base128(buffer, v) the buffer
\* is its old content followed by exactly uint_base128_len(v) bytes (1 to 5),
\* all but the last with the high bit set and the last with it clear, the
\* first never 0x80, decoding as big-endian 7-bit groups to v; the golden
\* pairs of the crate's test hold.
C10_Base128RoundTrip ==
    b128_pc = "written" =>
        /\ SubSeq(b128_buf, 1, Len(b128_old)) = b128_old
        /\ Len(B128Out) = uint_base128_len(b128_val)
        /\ Len(B128Out) \in 1..5
        /\ \A i \in 1..(Len(B128Out) - 1) : B128Out[i] >= 128
        /\ B128Out[Len(B128Out)] < 128
        /\ B128Out[1] # 128
        /\ B128Decode(B128Out) = b128_val
        /\ B128Golden

\* C10 witness: the largest u32 was written as five bytes after old content
C10_Witness ==
    /\ b128_pc = "written"
    /\ b128_val = <<65535, 65535>>
    /\ b128_old = <<128>>
    /\ B128Out = <<143, 255, 255, 255, 127>>

(***************************************************************************)
(* Specification SpecCmap: CmapTable::from_map, CmapTable::write and       *)
(* CmapTable::parse applied to bounded char maps, strictly ascending by    *)
(* char as FontSubset::push_char leaves them.                              *)
(***************************************************************************)
\* the longest char map
MaxMapLen == 3

CmChars == {9, 65, 66, 67, 80, 65534, 65535, 65536}

CmGlyphIds == {10, 11, 12, 20}

\* the char maps of length n, strictly ascending by char
RECURSIVE CmMapsOfLen(_)
CmMapsOfLen(n) ==
    IF n = 0 THEN {<<>>}
    ELSE UNION {
             {Append(m, <<c, g>>) :
                  c \in {d \in CmChars : m = <<>> \/ d > m[Len(m)][1]},
                  g \in CmGlyphIds} :
             m \in CmMapsOfLen(n - 1)}

\* the pairs of the coalescing example
GoldenMap == << <<65, 10>>, <<66, 11>>, <<67, 12>>, <<80, 20>> >>

CmMaps == UNION {CmMapsOfLen(n) : n \in 0..MaxMapLen} \cup {GoldenMap}

InitCmap ==
    /\ cm_pc = "start"
    /\ cm_map \in CmMaps
    /\ cm_groups = <<>>
    /\ cm_table = CmapCoverage(<<>>)
    /\ cm_bytes = <<>>
    /\ cm_parsed = R_Err("none")
    /\ B128Idle
    /\ SubIdle
    /\ LocaIdle
    /\ FwIdle
    /\ CrIdle
    /\ HmIdle

\* let cmap = CmapTable::from_map(&self.char_map);
CmFromMap ==
    /\ cm_pc = "start"
    /\ cm_groups' = create_coverage(cm_map)
    /\ cm_table' = from_map(cm_map)
    /\ cm_pc' = "built"
    /\ UNCHANGED <<cm_map, cm_bytes, cm_parsed, b128vars, subvars, locavars, fwvars, crvars, hmvars>>

\* cmap.write(buffer) into an empty table heap
CmWrite ==
    /\ cm_pc = "built"
    /\ LET written == CmapTable_write(cm_table, <<>>) IN
       /\ cm_bytes' = IF IsOk(written) THEN written.v ELSE <<>>
       /\ cm_pc' = IF IsOk(written) THEN "written" ELSE "write_panic"
    /\ UNCHANGED <<cm_map, cm_groups, cm_table, cm_parsed, b128vars, subvars, locavars, fwvars, crvars, hmvars>>

\* CmapTable::parse over the written table
CmParse ==
    /\ cm_pc = "written"
    /\ cm_parsed' = CmapTable_parse(cm_bytes)
    /\ cm_pc' = "parsed"
    /\ UNCHANGED <<cm_map, cm_groups, cm_table, cm_bytes, b128vars, subvars, locavars, fwvars, crvars, hmvars>>

NextCmap == CmFromMap \/ CmWrite \/ CmParse

SpecCmap == InitCmap /\ [][NextCmap]_vars

\* the chars of a map
MapChars(map) == {map[i][1] : i \in 1..Len(map)}

\* the chars a group covers
GroupChars(group) == group.start_char_code .. group.end_char_code

\* C9: Coalescing.  The groups create_coverage returns are ascending by
\* endCharCode and non-overlapping, cover exactly the input chars, map every
\* input char c to its input glyph id as startGlyphID + (c - startCharCode),
\* and are maximal: no group continues the run of the group before it.  The
\* pairs [(0x41,10),(0x42,11),(0x43,12),(0x50,20)] yield
\* [{0x41,0x43,10},{0x50,0x50,20}].
C9_Coalescing ==
    cm_pc \in {"built", "written", "parsed"} =>
        /\ \A i \in 1..Len(cm_groups) :
               cm_groups[i].start_char_code <= cm_groups[i].end_char_code
        /\ \A i \in 1..(Len(cm_groups) - 1) :
               cm_groups[i].end_char_code < cm_groups[i + 1].start_char_code
        /\ UNION {GroupChars(cm_groups[i]) : i \in 1..Len(cm_groups)}
               = MapChars(cm_map)
        /\ \A k \in 1..Len(cm_map) :
               \E i \in 1..Len(cm_groups) :
                   /\ cm_map[k][1] \in GroupChars(cm_groups[i])
                   /\ cm_groups[i].start_glyph_id
                          + (cm_map[k][1] - cm_groups[i].start_char_code)
                      = cm_map[k][2]
        /\ \A i \in 1..(Len(cm_groups) - 1) :
               ~ (/\ cm_groups[i + 1].start_char_code
                         = cm_groups[i].end_char_code + 1
                  /\ cm_groups[i + 1].start_glyph_id
                         = map_unchecked(cm_groups[i],
                                         cm_groups[i + 1].start_char_code))
        /\ cm_map = GoldenMap
               => cm_groups = << SequentialMapGroup(65, 67, 10),
                                 SequentialMapGroup(80, 80, 20) >>

\* C9 witness: the example of the claim was coalesced into two groups
C9_Witness ==
    /\ cm_pc = "built"
    /\ cm_map = GoldenMap
    /\ Len(cm_groups) = 2

\* the char map holds a char at or above c
MapHasCharGe(map, c) == \E i \in 1..Len(map) : map[i][1] >= c

\* the written table is format 4 and its parsed segments end with the
\* sentinel {0xFFFF, 0xFFFF, idDelta 1, idRangeOffset 0}
CmIsFormat4 ==
    /\ u16_at(cm_bytes, 12) = 4
    /\ cm_table.kind = "Deltas"
    /\ IsOk(cm_parsed)
    /\ cm_parsed.v.kind = "Deltas"
    /\ Len(cm_parsed.v.segments) >= 1
    /\ cm_parsed.v.segments[Len(cm_parsed.v.segments)]
           = SegmentWithDelta(65535, 65535, 1, 0)

\* the written table is format 12
CmIsFormat12 ==
    /\ u16_at(cm_bytes, 12) = 12
    /\ cm_table.kind = "Coverage"
    /\ IsOk(cm_parsed)
    /\ cm_parsed.v.kind = "Coverage"

\* C8 as claimed: every retained char <= U+FFFF gives format 4 with the
\* sentinel segment, any retained char >= 0x10000 gives format 12.
C8_FormatSelectionAsClaimed ==
    cm_pc = "parsed" =>
        /\ ~MapHasCharGe(cm_map, 65536) => CmIsFormat4
        /\ MapHasCharGe(cm_map, 65536) => CmIsFormat12

\* C8 amended: every retained char < U+FFFF gives format 4 with the sentinel
\* segment {0xFFFF, 0xFFFF, idDelta 1, idRangeOffset 0}; any retained char
\* >= U+FFFF gives format 12.
C8_FormatSelection ==
    cm_pc = "parsed" =>
        /\ ~MapHasCharGe(cm_map, 65535) => CmIsFormat4
        /\ MapHasCharGe(cm_map, 65535) => CmIsFormat12

\* C8 witness: U+FFFF is the only retained char and format 12 was written
C8_Witness ==
    /\ cm_pc = "parsed"
    /\ MapChars(cm_map) = {65535}
    /\ CmIsFormat12

\* C5: cmap encode/decode round trip.  For every char map strictly ascending
\* by char, the table CmapTable::write wrote parses back, and map_char on the
\* parsed table returns for every pair (c, g) exactly g; a format-4 table has
\* idRangeOffset = 0 and idDelta = (g_start - startCode) mod 2^16 in every
\* segment but the sentinel.
C5_CmapRoundTrip ==
    cm_pc = "parsed" =>
        /\ IsOk(cm_parsed)
        /\ \A k \in 1..Len(cm_map) :
               CmapTable_map_char(cm_parsed.v, cm_map[k][1]) = R_Ok(cm_map[k][2])
        /\ cm_parsed.v.kind = "Deltas" =>
               /\ Len(cm_parsed.v.segments) = Len(cm_groups) + 1
               /\ \A i \in 1..Len(cm_groups) :
                      LET segment == cm_parsed.v.segments[i] IN
                      /\ segment.start_code = cm_groups[i].start_char_code
                      /\ segment.end_code = cm_groups[i].end_char_code
                      /\ segment.id_range_offset = 0
                      /\ segment.id_delta
                             = (cm_groups[i].start_glyph_id
                                - segment.start_code + 65536) % 65536
        /\ cm_parsed.v.kind = "Coverage" => cm_parsed.v.groups = cm_groups

\* C5 witness: a format-4 table and a format-12 table were each read back,
\* the format-4 one with a delta that wraps
C5_WitnessFormat4 ==
    /\ cm_pc = "parsed"
    /\ cm_map = << <<9, 10>>, <<65, 11>>, <<65534, 12>> >>
    /\ cm_parsed.v.kind = "Deltas"
    /\ CmapTable_map_char(cm_parsed.v, 65534) = R_Ok(12)

(***************************************************************************)
(* font/mod.rs: TableTag constants (the four ASCII bytes) and the magic    *)
(* numbers of Font.                                                        *)
(***************************************************************************)
TAG_CMAP == <<99, 109, 97, 112>>

TAG_HEAD == <<104, 101, 97, 100>>

TAG_HHEA == <<104, 104, 101, 97>>

TAG_HMTX == <<104, 109, 116, 120>>

TAG_MAXP == <<109, 97, 120, 112>>

TAG_NAME == <<110, 97, 109, 101>>

TAG_OS2 == <<79, 83, 47, 50>>

TAG_POST == <<112, 111, 115, 116>>

TAG_LOCA == <<108, 111, 99, 97>>

TAG_GLYF == <<103, 108, 121, 102>>

TAG_CVT == <<99, 118, 116, 32>>

TAG_FPGM == <<102, 112, 103, 109>>

TAG_PREP == <<112, 114, 101, 112>>

\* Font::SFNT_VERSION = 0x0001_0000
SFNT_VERSION == U32(1, 0)

\* Font::SFNT_CHECKSUM = 0xb1b0_afba
SFNT_CHECKSUM == U32(45488, 44986)

\* Font::HEAD_CHECKSUM_OFFSET
HEAD_CHECKSUM_OFFSET == 8

\* HheaTable::EXPECTED_LEN
HHEA_EXPECTED_LEN == 36

(***************************************************************************)
(* font/mod.rs: Font::checksum                                             *)
(***************************************************************************)
\* the byte at 0-based offset off, or 0 past the end (the zero-padded chunk)
ByteOrZero(bytes, off) == IF off < Len(bytes) THEN bytes[off + 1] ELSE 0

\* the big-endian u32 of the chunk at 0-based offset off, zero-padded
chunk_word(bytes, off) ==
    u32_from_be_bytes(ByteOrZero(bytes, off), ByteOrZero(bytes, off + 1),
                      ByteOrZero(bytes, off + 2), ByteOrZero(bytes, off + 3))

\* the sum of the halves h (1 the high, 2 the low 16 bits) of the chunks
\* lo .. hi - 1, by halving to keep the evaluation shallow for long buffers
RECURSIVE checksum_fold(_, _, _, _)
checksum_fold(bytes, h, lo, hi) ==
    IF hi <= lo THEN 0
    ELSE IF hi = lo + 1 THEN chunk_word(bytes, 4 * lo)[h]
    ELSE checksum_fold(bytes, h, lo, (lo + hi) \div 2)
         + checksum_fold(bytes, h, (lo + hi) \div 2, hi)

\* Font::checksum: the fold of wrapping_add over the chunks is their sum
\* modulo 2^32; the low halves carry into the high halves
Font_checksum(bytes) ==
    LET chunks == (Len(bytes) + 3) \div 4
        low == checksum_fold(bytes, 2, 0, chunks)
    IN  U32((checksum_fold(bytes, 1, 0, chunks) + (low \div 65536)) % 65536,
            low % 65536)

(***************************************************************************)
(* font/glyph.rs: Glyph, GlyphComponent                                    *)
(***************************************************************************)
Glyph_Empty ==
    [kind |-> "Empty", bytes |-> <<>>, header |-> <<>>, components |-> <<>>,
     instructions |-> <<>>]

Glyph_Simple(bytes) ==
    [kind |-> "Simple", bytes |-> bytes, header |-> <<>>, components |-> <<>>,
     instructions |-> <<>>]

Glyph_Composite(header, components, instructions) ==
    [kind |-> "Composite", bytes |-> <<>>, header |-> header,
     components |-> components, instructions |-> instructions]

\* the flag bits GlyphComponent::new tests
ARG_1_AND_2_ARE_WORDS == 1

WE_HAVE_A_SCALE == 8

MORE_COMPONENTS == 32

WE_HAVE_AN_X_AND_Y_SCALE == 64

WE_HAVE_A_TWO_BY_TWO == 128

\* flags & bit != 0, for a single-bit mask
HasFlag(flags, bit) == (flags \div bit) % 2 = 1

\* the number of u16 values of the transform the flags announce
TransformLen(flags) ==
    IF HasFlag(flags, WE_HAVE_A_SCALE) THEN 1
    ELSE IF HasFlag(flags, WE_HAVE_AN_X_AND_Y_SCALE) THEN 2
    ELSE IF HasFlag(flags, WE_HAVE_A_TWO_BY_TWO) THEN 4
    ELSE 0

\* GlyphComponent::new: R_Ok of the component, the has_more_components flag
\* and the remaining bytes.  args holds the bytes of the u16 or u32 read
\* (GlyphComponentArgs::U16 / U32), transform the u16 values of
\* TransformData (none, one, two or four).
GlyphComponent_new(cursor) ==
    IF Len(cursor) < 4 THEN R_Err("UnexpectedEof")
    ELSE
    LET flags == u16_at(cursor, 0)
        glyph_idx == u16_at(cursor, 2)
        args_len == IF HasFlag(flags, ARG_1_AND_2_ARE_WORDS) THEN 4 ELSE 2
        n == TransformLen(flags)
        total == 4 + args_len + 2 * n
    IN  IF Len(cursor) < total THEN R_Err("UnexpectedEof")
        ELSE R_Ok([component |->
                       [flags |-> flags,
                        glyph_idx |-> glyph_idx,
                        args |-> Slice(cursor, 4, 4 + args_len),
                        transform |-> [k \in 1..n |->
                            u16_at(cursor, 4 + args_len + 2 * (k - 1))]],
                   has_more_components |-> HasFlag(flags, MORE_COMPONENTS),
                   rest |-> BytesFrom(cursor, total)])

\* the while loop of Glyph::new reading components
RECURSIVE Glyph_components(_, _)
Glyph_components(cursor, components) ==
    Try(GlyphComponent_new(cursor), LAMBDA c :
        IF c.has_more_components
        THEN Glyph_components(c.rest, Append(components, c.component))
        ELSE R_Ok([components |-> Append(components, c.component),
                   rest |-> c.rest]))

\* Glyph::new
Glyph_new(raw) ==
    IF raw = <<>> THEN R_Ok(Glyph_Empty)
    ELSE IF Len(raw) < 2 THEN R_Err("UnexpectedEof")
    ELSE IF u16_at(raw, 0) > 32767
    THEN IF Len(raw) < 10 THEN R_Err("UnexpectedEof")
         ELSE Try(Glyph_components(BytesFrom(raw, 10), <<>>), LAMBDA cs :
                  R_Ok(Glyph_Composite(Slice(raw, 2, 10), cs.components, cs.rest)))
    ELSE R_Ok(Glyph_Simple(raw))

\* GlyphComponent::write
GlyphComponent_write(self, writer) ==
    writer
    \o u16_be_bytes(self.flags)
    \o u16_be_bytes(self.glyph_idx)
    \o self.args
    \o Concat([k \in 1..Len(self.transform) |-> u16_be_bytes(self.transform[k])])

\* Glyph::write
Glyph_write(self, writer) ==
    IF self.kind = "Empty" THEN writer
    ELSE IF self.kind = "Simple" THEN writer \o self.bytes
    ELSE writer
         \o u16_be_bytes(65535)
         \o self.header
         \o Concat([k \in 1..Len(self.components) |->
                GlyphComponent_write(self.components[k], <<>>)])
         \o self.instructions

GlyphWithMetrics(inner, advance, lsb) ==
    [inner |-> inner, advance |-> advance, lsb |-> lsb]

(***************************************************************************)
(* font/mod.rs: LocaTable, HmtxTable, Font::glyph, Font::map_char.         *)
(* A Font is a record of its tables: cmap (parsed), head, maxp, name, os2, *)
(* post, glyf (bytes), hhea and hmtx ([raw, number_of_h_metrics]), loca    *)
(* ([format, cursor]), and the optional cvt, fpgm, prep (None or Some).    *)
(***************************************************************************)
\* LocaFormat::bytes_per_offset
bytes_per_offset(format) == IF format = "Short" THEN 2 ELSE 4

\* LocaTable::glyph_range: R_Ok([start, end]) or R_Err
LocaTable_glyph_range(self, glyph_idx) ==
    IF self.format = "Short"
    THEN IF Len(self.cursor) < glyph_idx * 2 + 4 THEN R_Err("UnexpectedEof")
         ELSE R_Ok([start |-> u16_at(self.cursor, glyph_idx * 2) * 2,
                    end |-> u16_at(self.cursor, glyph_idx * 2 + 2) * 2])
    ELSE IF Len(self.cursor) < glyph_idx * 4 + 8 THEN R_Err("UnexpectedEof")
         ELSE R_Ok([start |-> U32ToInt(u32_at(self.cursor, glyph_idx * 4)),
                    end |-> U32ToInt(u32_at(self.cursor, glyph_idx * 4 + 4))])

\* HmtxTable::advance_and_lsb: R_Ok([advance, lsb]), R_Err, or R_Panic when
\* number_of_h_metrics - 1 underflows (a debug build; a release build wraps
\* to 65535 and the skip past the table fails)
HmtxTable_advance_and_lsb(self, glyph_idx) ==
    IF glyph_idx < self.number_of_h_metrics
    THEN IF Len(self.raw) < glyph_idx * 4 + 4 THEN R_Err("UnexpectedEof")
         ELSE R_Ok([advance |-> u16_at(self.raw, glyph_idx * 4),
                    lsb |-> u16_at(self.raw, glyph_idx * 4 + 2)])
    ELSE IF self.number_of_h_metrics = 0 THEN R_Panic("attempt to subtract with overflow")
    ELSE
    LET advance_offset == (self.number_of_h_metrics - 1) * 4
        lsb_offset == self.number_of_h_metrics * 4
                      + (glyph_idx - self.number_of_h_metrics) * 2
    IN  IF Len(self.raw) < advance_offset + 2 THEN R_Err("UnexpectedEof")
        ELSE IF Len(self.raw) < lsb_offset + 2 THEN R_Err("UnexpectedEof")
        ELSE R_Ok([advance |-> u16_at(self.raw, advance_offset),
                   lsb |-> u16_at(self.raw, lsb_offset)])

\* Font::map_char
Font_map_char(self, ch) == CmapTable_map_char(self.cmap, ch)

\* Font::glyph
Font_glyph(self, glyph_idx) ==
    Try(LocaTable_glyph_range(self.loca, glyph_idx), LAMBDA range :
    Try(Cursor_range(self.glyf, range.start, range.end), LAMBDA raw :
    Try(Glyph_new(raw), LAMBDA inner :
    Try(HmtxTable_advance_and_lsb(self.hmtx, glyph_idx), LAMBDA metrics :
    R_Ok(GlyphWithMetrics(inner, metrics.advance, metrics.lsb))))))

(***************************************************************************)
(* subset.rs: FontSubset.  The subset is the record [char_map,             *)
(* old_to_new_glyph_idx, glyphs]; the font it borrows is passed along.     *)
(* old_to_new_glyph_idx is a function from old to new glyph indices.       *)
(***************************************************************************)
\* the deepest recursion of ensure_glyph the stack holds; a call beyond it
\* exhausts the stack and aborts the process
StackLimit == 6

\* the outcome of ensure_glyph: the subset as the call left it, and the new
\* index (Ok), the error kind (Err), or stack exhaustion (StackOverflow)
E_Ok(self, v) == [tag |-> "Ok", self |-> self, v |-> v, kind |-> ""]

E_Fail(tag, self, kind) == [tag |-> tag, self |-> self, v |-> 0, kind |-> kind]

\* the `?` operator on an outcome of ensure_glyph: the failure, or K of the
\* subset as the call left it and the value
E_Try(r, K(_, _)) == IF r.tag # "Ok" THEN r ELSE K(r.self, r.v)

\* the `?` operator on a result that leaves the subset alone
E_Lift(self, r, K(_)) == IF ~IsOk(r) THEN E_Fail(r.tag, self, r.kind) ELSE K(r.v)

\* FontSubset::empty
FontSubset_empty(font) ==
    Try(Font_glyph(font, 0), LAMBDA empty_glyph :
        R_Ok([char_map |-> <<>>,
              old_to_new_glyph_idx |-> (0 :> 0),
              glyphs |-> <<empty_glyph>>]))

RECURSIVE ensure_glyph(_, _, _, _)
RECURSIVE ensure_components(_, _, _, _, _)

\* the `for component in components` loop of ensure_glyph, from the i-th
\* component on; v is the component list with the indices rewritten so far
ensure_components(font, self, components, i, depth) ==
    IF i > Len(components) THEN E_Ok(self, components)
    ELSE E_Try(ensure_glyph(font, self, components[i].glyph_idx, depth + 1),
             LAMBDA this, new_idx :
                 ensure_components(font, this,
                     [components EXCEPT ![i].glyph_idx = new_idx], i + 1, depth))

\* a variant that does not look the glyph up in old_to_new_glyph_idx first
ensure_glyph_again(font, self, old_idx, depth) ==
    IF depth > StackLimit THEN E_Fail("StackOverflow", self, "stack overflow")
    ELSE E_Lift(self, Font_glyph(font, old_idx), LAMBDA glyph :
         E_Try(IF glyph.inner.kind = "Composite"
               THEN ensure_components(font, self, glyph.inner.components, 1, depth)
               ELSE E_Ok(self, glyph.inner.components),
               LAMBDA this, components :
                   E_Ok([this EXCEPT
                             !.glyphs = Append(@,
                                 [glyph EXCEPT !.inner.components = components]),
                             !.old_to_new_glyph_idx =
                                 @ @@ (old_idx :> Len(this.glyphs))],
                        Len(this.glyphs))))

\* FontSubset::ensure_glyph, called at recursion depth `depth`
ensure_glyph(font, self, old_idx, depth) ==
    IF depth > StackLimit THEN E_Fail("StackOverflow", self, "stack overflow")
    ELSE IF old_idx \in DOMAIN self.old_to_new_glyph_idx
    THEN E_Ok(self, self.old_to_new_glyph_idx[old_idx])
    ELSE E_Lift(self, Font_glyph(font, old_idx), LAMBDA glyph :
         E_Try(IF glyph.inner.kind = "Composite"
               THEN ensure_components(font, self, glyph.inner.components, 1, depth)
               ELSE E_Ok(self, glyph.inner.components),
               LAMBDA this, components :
                   IF Len(this.glyphs) > 65535
                   THEN E_Fail("Panic", this, "too many glyphs")
                   ELSE E_Ok([this EXCEPT
                                  !.glyphs = Append(@,
                                      [glyph EXCEPT !.inner.components = components]),
                                  !.old_to_new_glyph_idx =
                                      @ @@ (old_idx :> Len(this.glyphs))],
                             Len(this.glyphs))))

\* a variant that takes glyph 0 for a char the font fails to map
push_char_unmapped(font, self, ch) ==
    E_Try(ensure_glyph(font, self,
                       IF IsOk(Font_map_char(font, ch)) THEN Font_map_char(font, ch).v
                       ELSE 0, 1),
          LAMBDA this, new_idx :
    E_Ok([this EXCEPT !.char_map = Append(@, <<ch, new_idx>>)], 0))

\* a variant that maps the char to the glyph's index in the source font
push_char_old_idx(font, self, ch) ==
    E_Lift(self, Font_map_char(font, ch), LAMBDA old_idx :
    E_Try(ensure_glyph(font, self, old_idx, 1), LAMBDA this, new_idx :
    E_Ok([this EXCEPT !.char_map = Append(@, <<ch, old_idx>>)], 0)))

\* FontSubset::push_char
push_char(font, self, ch) ==
    E_Lift(self, Font_map_char(font, ch), LAMBDA old_idx :
    E_Try(ensure_glyph(font, self, old_idx, 1), LAMBDA this, new_idx :
    E_Ok([this EXCEPT !.char_map = Append(@, <<ch, new_idx>>)], 0)))

(***************************************************************************)
(* write/mod.rs: table writers                                             *)
(***************************************************************************)
\* a variant without the loop: every glyph keeps a full metric
number_of_h_metrics_full(glyphs, n) == n

\* the while loop of HmtxTable::write_for_glyphs, from number_of_h_metrics = n
RECURSIVE number_of_h_metrics_from(_, _)
number_of_h_metrics_from(glyphs, n) ==
    IF n >= 2 /\ glyphs[n - 1].advance = glyphs[n].advance
    THEN number_of_h_metrics_from(glyphs, n - 1)
    ELSE n

\* the value HmtxTable::write_for_glyphs returns
write_for_glyphs_result(glyphs) == number_of_h_metrics_from(glyphs, Len(glyphs))

\* a variant that writes the advance of every glyph
HmtxTable_write_for_glyphs_full(glyphs, writer) ==
    writer \o Concat([k \in 1..Len(glyphs) |->
                  u16_be_bytes(glyphs[k].advance) \o u16_be_bytes(glyphs[k].lsb)])

\* the buffer after HmtxTable::write_for_glyphs
HmtxTable_write_for_glyphs(glyphs, writer) ==
    LET number_of_h_metrics == write_for_glyphs_result(glyphs) IN
    writer \o Concat([k \in 1..Len(glyphs) |->
                  IF k - 1 < number_of_h_metrics
                  THEN u16_be_bytes(glyphs[k].advance) \o u16_be_bytes(glyphs[k].lsb)
                  ELSE u16_be_bytes(glyphs[k].lsb)])

\* HheaTable::write
HheaTable_write(self, writer) ==
    write_u16(writer \o Slice(self.raw, 0, HHEA_EXPECTED_LEN - 2),
              self.number_of_h_metrics)

\* the `locations` the glyf closure of to_writer returns: 0 and the end of
\* every glyph
RECURSIVE glyf_locations(_, _)
glyf_locations(glyphs, n) ==
    IF n = 0 THEN <<0>>
    ELSE LET before == glyf_locations(glyphs, n - 1) IN
         Append(before, before[n] + Len(Glyph_write(glyphs[n].inner, <<>>)))

\* the buffer after the glyf closure of to_writer
glyf_write(glyphs, writer) ==
    writer \o Concat([k \in 1..Len(glyphs) |-> Glyph_write(glyphs[k].inner, <<>>)])

\* a variant that tests the bound only
LocaTable_write_format_in_bounds(locations) ==
    IF locations = <<>> \/ locations[Len(locations)] <= 65535 * 2 THEN "Short" ELSE "Long"

\* the LocaFormat LocaTable::write returns
LocaTable_write_format(locations) ==
    LET all_even == \A k \in 1..Len(locations) : locations[k] % 2 = 0
        in_bounds == locations = <<>> \/ locations[Len(locations)] <= 65535 * 2
    IN  IF all_even /\ in_bounds THEN "Short" ELSE "Long"

\* the buffer after LocaTable::write
LocaTable_write(locations, writer) ==
    IF LocaTable_write_format(locations) = "Short"
    THEN writer \o Concat([k \in 1..Len(locations) |->
                       u16_be_bytes((locations[k] \div 2) % 65536)])
    ELSE writer \o Concat([k \in 1..Len(locations) |->
                       u32_be_bytes(U32FromInt(locations[k]))])

LOCA_FORMAT_OFFSET == 50

\* a variant that copies the head table and zeroes the checksum adjustment
\* only
write_head_table_keep_format(original, loca_format, writer) ==
    write_u32(writer \o Slice(original, 0, HEAD_CHECKSUM_OFFSET), U32(0, 0))
    \o BytesFrom(original, HEAD_CHECKSUM_OFFSET + 4)

\* FontSubset::write_head_table
write_head_table(original, loca_format, writer) ==
    write_u16(
        write_u32(writer \o Slice(original, 0, HEAD_CHECKSUM_OFFSET), U32(0, 0))
            \o Slice(original, HEAD_CHECKSUM_OFFSET + 4, LOCA_FORMAT_OFFSET),
        IF loca_format = "Short" THEN 0 ELSE 1)
    \o BytesFrom(original, LOCA_FORMAT_OFFSET + 2)

(***************************************************************************)
(* write/mod.rs: TableRecord and FontWriter.  A FontWriter is the record   *)
(* [tables, table_data]; a TableRecord [tag, checksum, offset, length]     *)
(* with the tag as 4 bytes, the checksum as a u32 and offset and length as *)
(* naturals (below 2^31 in every buffer of the model).                     *)
(***************************************************************************)
TableRecord_BYTE_LEN == 16

SFNT_HEADER_LEN == 12

FontWriter_default == [tables |-> <<>>, table_data |-> <<>>]

\* the zero bytes FontWriter::write_table pads a table of `length` bytes with
zero_padding(length) ==
    IF length % 4 > 0 THEN [k \in 1..(4 - (length % 4)) |-> 0] ELSE <<>>

\* a variant that does not pad the table to 4 bytes
write_table_unpadded(self, tag, written) ==
    [tables |-> Append(self.tables,
                    [tag |-> tag,
                     checksum |-> Font_checksum(BytesFrom(written, Len(self.table_data))),
                     offset |-> Len(self.table_data),
                     length |-> Len(written) - Len(self.table_data)]),
     table_data |-> written]

\* FontWriter::write_table, where `written` is self.table_data as the
\* closure `with` left it
write_table(self, tag, written) ==
    LET offset == Len(self.table_data)
        length == Len(written) - offset
        table_data == written \o zero_padding(length)
    IN  [tables |-> Append(self.tables,
                        [tag |-> tag,
                         checksum |-> Font_checksum(BytesFrom(table_data, offset)),
                         offset |-> offset,
                         length |-> length]),
         table_data |-> table_data]

\* FontWriter::write_raw_table
write_raw_table(self, tag, content) ==
    write_table(self, tag, self.table_data \o content)

\* the writer after write_raw_table(tag, content) for each <<tag, content>> of
\* tables in order, from FontWriter::default(): table i is written to a writer
\* whose table_data is the data of the tables before it
write_tables(tables) ==
    LET data(i) == write_raw_table(FontWriter_default, tables[i][1], tables[i][2]).table_data
        before(i) == Concat([j \in 1..(i - 1) |-> data(j)])
        writer(i) == [FontWriter_default EXCEPT !.table_data = before(i)]
    IN  [tables |-> [i \in 1..Len(tables) |->
                        write_raw_table(writer(i), tables[i][1], tables[i][2]).tables[1]],
         table_data |-> before(Len(tables) + 1)]

\* FontWriter::write_sfnt_header
write_sfnt_header(self) ==
    LET table_count == Len(self.tables)
        entry_selector == ilog2(table_count)
        search_range == Pow2(4 + entry_selector)
        range_shift == 16 * table_count - search_range
    IN  write_u16(write_u16(write_u16(write_u16(
            write_u32(<<>>, SFNT_VERSION),
            table_count), search_range), entry_selector), range_shift)

\* FontWriter::data_offset
data_offset(self) == SFNT_HEADER_LEN + Len(self.tables) * TableRecord_BYTE_LEN

\* a variant that leaves the length out of the sum
self_checksum_nolen(record) ==
    wrapping_add(wrapping_add(
        u32_from_be_bytes(record.tag[1], record.tag[2], record.tag[3], record.tag[4]),
        record.checksum), U32FromInt(record.offset))

\* TableRecord::self_checksum
self_checksum(record) ==
    wrapping_add(wrapping_add(wrapping_add(
        u32_from_be_bytes(record.tag[1], record.tag[2], record.tag[3], record.tag[4]),
        record.checksum), U32FromInt(record.offset)), U32FromInt(record.length))

\* TableRecord::write_opentype
write_opentype(record, writer) ==
    write_u32(write_u32(write_u32(writer \o record.tag, record.checksum),
                        U32FromInt(record.offset)), U32FromInt(record.length))

\* the index of the first record with the tag, or 0
RECURSIVE find_table(_, _, _)
find_table(tables, tag, i) ==
    IF i > Len(tables) THEN 0
    ELSE IF tables[i].tag = tag THEN i
    ELSE find_table(tables, tag, i + 1)

\* FontWriter::checksum_adjustment_offset
checksum_adjustment_offset(self) ==
    self.tables[find_table(self.tables, TAG_HEAD, 1)].offset + HEAD_CHECKSUM_OFFSET

\* FontWriter::patch_head_table
patch_head_table(self, file_checksum, data_off) ==
    LET checksum_adjustment == wrapping_sub(SFNT_CHECKSUM, file_checksum)
        offset == checksum_adjustment_offset(self) - data_off
        bytes == u32_be_bytes(checksum_adjustment)
    IN  [self EXCEPT !.table_data =
             [k \in 1..Len(@) |->
                 IF k > offset /\ k <= offset + 4 THEN bytes[k - offset] ELSE @[k]]]

\* the wrapping sum adjust_data accumulates over the shifted records lo + 1
\* to hi: for each record its self_checksum and its checksum
RECURSIVE file_checksum_fold(_, _, _)
file_checksum_fold(tables, lo, hi) ==
    IF hi <= lo THEN U32(0, 0)
    ELSE IF hi = lo + 1
    THEN wrapping_add(self_checksum(tables[hi]), tables[hi].checksum)
    ELSE wrapping_add(file_checksum_fold(tables, lo, (lo + hi) \div 2),
                      file_checksum_fold(tables, (lo + hi) \div 2, hi))

\* FontWriter::adjust_data
adjust_data(self, sfnt_header_checksum) ==
    LET data_off == data_offset(self)
        shifted == [self EXCEPT !.tables =
                        [i \in 1..Len(@) |-> [@[i] EXCEPT !.offset = @ + data_off]]]
        file_checksum == wrapping_add(sfnt_header_checksum,
                             file_checksum_fold(shifted.tables, 0, Len(shifted.tables)))
    IN  patch_head_table(shifted, file_checksum, data_off)

\* a < b for tags, lexicographic on the 4 bytes
RECURSIVE tag_less_from(_, _, _)
tag_less_from(a, b, i) ==
    IF i > 4 THEN FALSE
    ELSE IF a[i] # b[i] THEN a[i] < b[i]
    ELSE tag_less_from(a, b, i + 1)

tag_less(a, b) == tag_less_from(a, b, 1)

\* sort_unstable_by_key(|record| record.tag.0) over records with distinct
\* tags: the record at place k has k - 1 records with a smaller tag
\* a variant that keeps the order of the writes
sort_by_tag_unsorted(tables) == tables

sort_by_tag(tables) ==
    [k \in 1..Len(tables) |->
        tables[CHOOSE i \in 1..Len(tables) :
                   Cardinality({j \in 1..Len(tables) :
                                    tag_less(tables[j].tag, tables[i].tag)}) = k - 1]]

\* FontWriter::into_opentype
into_opentype(self) ==
    Let(write_sfnt_header(self), LAMBDA header :
    Let(adjust_data(self, Font_checksum(header)), LAMBDA adjusted :
    Let(sort_by_tag(adjusted.tables), LAMBDA sorted :
        header
        \o Concat([i \in 1..Len(sorted) |-> write_opentype(sorted[i], <<>>)])
        \o adjusted.table_data)))

(***************************************************************************)
(* write/mod.rs: FontSubset::to_writer and to_truetype.  An Option is a    *)
(* sequence of no or one value.                                            *)
(***************************************************************************)
None == <<>>

Some(v) == <<v>>

\* a variant that writes an empty table where the font has none
optional_tables_always(tag, table) ==
    IF table = None THEN <<<<tag, <<>>>>>> ELSE <<<<tag, table[1]>>>>

\* the tables `if let Some(table) = ... { writer.write_raw_table(tag, table) }`
\* writes: the table if it is there
optional_tables(tag, table) ==
    IF table = None THEN <<>> ELSE <<<<tag, table[1]>>>>

\* FontSubset::to_writer
to_writer(font, self) ==
    Try(CmapTable_write(from_map(self.char_map), <<>>), LAMBDA cmap :
    IF Len(self.glyphs) > 65535 \/ Len(font.maxp) < 6 THEN R_Panic("maxp")
    ELSE IF Len(font.post) < 32 THEN R_Panic("post[4..32]")
    ELSE IF Len(font.head) < LOCA_FORMAT_OFFSET + 2 THEN R_Panic("head")
    ELSE
    Let(glyf_locations(self.glyphs, Len(self.glyphs)), LAMBDA locations :
    R_Ok(write_tables(
        <<<<TAG_CMAP, cmap>>>>
        \o optional_tables(TAG_CVT, font.cvt)
        \o optional_tables(TAG_FPGM, font.fpgm)
        \o <<<<TAG_HMTX, HmtxTable_write_for_glyphs(self.glyphs, <<>>)>>,
             <<TAG_HHEA, HheaTable_write(
                 [font.hhea EXCEPT !.number_of_h_metrics =
                      write_for_glyphs_result(self.glyphs)], <<>>)>>,
             <<TAG_MAXP, write_u16(Slice(font.maxp, 0, 4), Len(self.glyphs))
                             \o BytesFrom(font.maxp, 6)>>,
             <<TAG_NAME, font.name>>,
             <<TAG_OS2, font.os2>>,
             <<TAG_POST, write_u32(<<>>, U32(3, 0)) \o Slice(font.post, 4, 32)>>>>
        \o optional_tables(TAG_PREP, font.prep)
        \o <<<<TAG_GLYF, glyf_write(self.glyphs, <<>>)>>,
             <<TAG_LOCA, LocaTable_write(locations, <<>>)>>,
             <<TAG_HEAD, write_head_table(font.head, LocaTable_write_format(locations),
                                          <<>>)>>>>))))

\* FontSubset::to_truetype
to_truetype(font, self) ==
    Try(to_writer(font, self), LAMBDA writer : R_Ok(into_opentype(writer)))

\* ---- WOFF2 (write/mod.rs, write/brotli.rs) ----

WOFF2_HEADER_LEN == 48

\* 0x774f4632
WOFF2_SIGNATURE == U32(30543, 17970)

NULL_TRANSFORM == 192

\* the flags of TableRecord::write_woff2; 255 stands for unreachable!()
woff2_flags(tag) ==
    IF tag = TAG_CMAP THEN 0
    ELSE IF tag = TAG_HEAD THEN 1
    ELSE IF tag = TAG_HHEA THEN 2
    ELSE IF tag = TAG_HMTX THEN 3
    ELSE IF tag = TAG_MAXP THEN 4
    ELSE IF tag = TAG_NAME THEN 5
    ELSE IF tag = TAG_OS2 THEN 6
    ELSE IF tag = TAG_POST THEN 7
    ELSE IF tag = TAG_CVT THEN 8
    ELSE IF tag = TAG_FPGM THEN 9
    ELSE IF tag = TAG_GLYF THEN 10 + NULL_TRANSFORM
    ELSE IF tag = TAG_LOCA THEN 11 + NULL_TRANSFORM
    ELSE IF tag = TAG_PREP THEN 12
    ELSE 255

\* a variant that takes the length for one byte
woff2_len_short(record) == 2

woff2_len(record) == 1 + uint_base128_len(U32FromInt(record.length))

write_woff2(record, buffer) ==
    write_uint_base128(Append(buffer, woff2_flags(record.tag)), U32FromInt(record.length))

\* TableDataReader::new; the debug assertion fails when the records are not
\* in the order of their offsets
TableDataReader_new(writer) ==
    IF \E i \in 1..(Len(writer.tables) - 1) :
           writer.tables[i].offset + writer.tables[i].length
               > writer.tables[i + 1].offset
    THEN R_Panic("table records need to be ordered by offsets")
    ELSE R_Ok([data_offset |-> IF writer.tables = <<>> THEN 0
                               ELSE writer.tables[1].offset,
               table_idx |-> 0,
               pos_in_table |-> 0])

\* TableDataReader::read_chunk for a buffer `data` of len bytes: the bytes
\* copied to the buffer, and the length of the tail of the buffer if the
\* range ended before the buffer was full
read_chunk(writer, start, end, len) ==
    IF end - start < len
    THEN [read |-> Slice(writer.table_data, start, end),
          remaining_data |-> Some(len - (end - start))]
    ELSE [read |-> Slice(writer.table_data, start, start + len),
          remaining_data |-> None]

\* the loop of TableDataReader::read for a buffer of len bytes still to
\* fill, after the bytes `yielded` were copied: the reader after the call
\* and all the bytes copied (total_read is their number)
RECURSIVE TableDataReader_read_loop_keep_pos(_, _, _, _)
RECURSIVE TableDataReader_read_loop(_, _, _, _)
\* a variant that keeps pos_in_table when it moves to the next table
TableDataReader_read_loop_keep_pos(writer, self, len, yielded) ==
    IF self.table_idx >= Len(writer.tables)
    THEN [tag |-> "Ok", self |-> self, data |-> yielded]
    ELSE
    Let(writer.tables[self.table_idx + 1], LAMBDA table :
    Let(table.offset - self.data_offset, LAMBDA adjusted_offset :
    IF adjusted_offset + self.pos_in_table > adjusted_offset + table.length
       \/ adjusted_offset + table.length > Len(writer.table_data)
    THEN [tag |-> "Panic", self |-> self, data |-> yielded]
    ELSE
    Let(read_chunk(writer, adjusted_offset + self.pos_in_table,
                   adjusted_offset + table.length, len), LAMBDA chunk :
    IF chunk.remaining_data # None
    THEN TableDataReader_read_loop(writer,
             [self EXCEPT !.table_idx = @ + 1],
             chunk.remaining_data[1], yielded \o chunk.read)
    ELSE [tag |-> "Ok",
          self |-> [self EXCEPT !.pos_in_table = @ + Len(chunk.read)],
          data |-> yielded \o chunk.read])))

TableDataReader_read_loop(writer, self, len, yielded) ==
    IF self.table_idx >= Len(writer.tables)
    THEN [tag |-> "Ok", self |-> self, data |-> yielded]
    ELSE
    Let(writer.tables[self.table_idx + 1], LAMBDA table :
    Let(table.offset - self.data_offset, LAMBDA adjusted_offset :
    IF adjusted_offset + self.pos_in_table > adjusted_offset + table.length
       \/ adjusted_offset + table.length > Len(writer.table_data)
    THEN [tag |-> "Panic", self |-> self, data |-> yielded]
    ELSE
    Let(read_chunk(writer, adjusted_offset + self.pos_in_table,
                   adjusted_offset + table.length, len), LAMBDA chunk :
    IF chunk.remaining_data # None
    THEN TableDataReader_read_loop(writer,
             [self EXCEPT !.table_idx = @ + 1, !.pos_in_table = 0],
             chunk.remaining_data[1], yielded \o chunk.read)
    ELSE [tag |-> "Ok",
          self |-> [self EXCEPT !.pos_in_table = @ + Len(chunk.read)],
          data |-> yielded \o chunk.read])))

\* TableDataReader::read(data) for a buffer of len bytes
TableDataReader_read(writer, self, len) ==
    TableDataReader_read_loop(writer, self, len, <<>>)

\* a variant that reads the padding of the tables too
table_data_read_padded(self) == self.table_data

\* all that TableDataReader yields: the bytes of every table, without its
\* padding, in the order of self.tables; the offsets are taken from the
\* offset of the first table
table_data_read(self) ==
    Concat([i \in 1..Len(self.tables) |->
        Slice(self.table_data,
              self.tables[i].offset - self.tables[1].offset,
              self.tables[i].offset - self.tables[1].offset + self.tables[i].length)])

\* the encoder of the brotli crate, as a lossless encoder of which only the
\* shape of the output is modelled: a header of 1 + pad bytes (the first
\* gives pad) and the data as stored; pad stands for what the size of the
\* output is modulo 4
BrotliCompress(data, pad) == <<pad>> \o [k \in 1..pad |-> 0] \o data

compress_data(self, pad) == BrotliCompress(table_data_read(self), pad)

RECURSIVE tables_len_sum(_, _)
tables_len_sum(tables, n) ==
    IF n = 0 THEN 0 ELSE tables_len_sum(tables, n - 1) + woff2_len(tables[n])

\* the header of into_woff2
woff2_header(self, file_len, compressed_len) ==
    write_u32(write_u32(write_u16(write_u16(write_u32(write_u32(write_u32(<<>>,
        WOFF2_SIGNATURE), SFNT_VERSION), U32FromInt(file_len)),
        Len(self.tables)), 0),
        U32FromInt(data_offset(self) + Len(self.table_data))),
        U32FromInt(compressed_len))
    \o [k \in 1..24 |-> 0]

\* the buffer of into_woff2 before the padding
woff2_body(self, compressed_data) ==
    woff2_header(self,
        Let(WOFF2_HEADER_LEN + tables_len_sum(self.tables, Len(self.tables))
                + Len(compressed_data),
            LAMBDA file_len : IF file_len % 4 # 0 THEN file_len + (4 - (file_len % 4))
                              ELSE file_len),
        Len(compressed_data))
    \o Concat([i \in 1..Len(self.tables) |-> write_woff2(self.tables[i], <<>>)])
    \o compressed_data

\* a variant that leaves the sfnt header out of the file checksum
into_woff2_without_header(self, pad) ==
    Let(adjust_data(self, U32(0, 0)), LAMBDA adjusted :
    Let(woff2_body(adjusted, compress_data(adjusted, pad)), LAMBDA buffer :
        buffer \o zero_padding(Len(buffer))))

\* FontWriter::into_woff2
into_woff2(self, pad) ==
    Let(adjust_data(self, Font_checksum(write_sfnt_header(self))), LAMBDA adjusted :
    Let(woff2_body(adjusted, compress_data(adjusted, pad)), LAMBDA buffer :
        buffer \o zero_padding(Len(buffer))))

to_woff2(font, self, pad) ==
    Try(to_writer(font, self), LAMBDA writer : R_Ok(into_woff2(writer, pad)))

(***************************************************************************)
(* font/mod.rs: Font::parse                                                *)
(***************************************************************************)
\* HheaTable::parse
HheaTable_parse(bytes) ==
    IF Len(bytes) # HHEA_EXPECTED_LEN THEN R_Err("UnexpectedTableLen")
    ELSE R_Ok([raw |-> bytes,
               number_of_h_metrics |-> u16_at(bytes, HHEA_EXPECTED_LEN - 2)])

\* LocaTable::new
LocaTable_new(format, glyph_count, cursor) ==
    IF Len(cursor) # bytes_per_offset(format) * (glyph_count + 1)
    THEN R_Err("UnexpectedTableLen")
    ELSE R_Ok([format |-> format, cursor |-> cursor])

\* Font::parse_table_record; v is the tag and the bytes of the table
\* a variant without the test of the alignment
parse_table_record_any_offset(header_cursor, font_bytes) ==
    IF Len(header_cursor) < 16 THEN R_Err("UnexpectedEof")
    ELSE
    Let(Slice(header_cursor, 0, 4), LAMBDA tag :
    Let(U32ToInt(u32_at(header_cursor, 8)), LAMBDA offset :
    Let(U32ToInt(u32_at(header_cursor, 12)), LAMBDA len :
    IF offset > Len(font_bytes) \/ len > Len(font_bytes) - offset
    THEN R_Err("RangeOutOfBounds")
    ELSE
    Let(Slice(font_bytes, offset, offset + len), LAMBDA table_bytes :
    IF tag = TAG_HEAD /\ Len(table_bytes) < HEAD_CHECKSUM_OFFSET + 4
    THEN R_Panic("head checksum adjustment")
    ELSE IF u32_at(header_cursor, 4) #
                (IF tag = TAG_HEAD
                 THEN wrapping_sub(Font_checksum(table_bytes),
                                   u32_at(table_bytes, HEAD_CHECKSUM_OFFSET))
                 ELSE Font_checksum(table_bytes))
    THEN R_Err("Checksum")
    ELSE R_Ok([tag |-> tag, bytes |-> table_bytes])))))

parse_table_record(header_cursor, font_bytes) ==
    IF Len(header_cursor) < 16 THEN R_Err("UnexpectedEof")
    ELSE
    Let(Slice(header_cursor, 0, 4), LAMBDA tag :
    Let(U32ToInt(u32_at(header_cursor, 8)), LAMBDA offset :
    Let(U32ToInt(u32_at(header_cursor, 12)), LAMBDA len :
    IF offset > Len(font_bytes) \/ len > Len(font_bytes) - offset
    THEN R_Err("RangeOutOfBounds")
    ELSE
    Let(Slice(font_bytes, offset, offset + len), LAMBDA table_bytes :
    IF offset % 4 # 0 THEN R_Err("UnalignedTable")
    ELSE IF tag = TAG_HEAD /\ Len(table_bytes) < HEAD_CHECKSUM_OFFSET + 4
    THEN R_Panic("head checksum adjustment")
    ELSE IF u32_at(header_cursor, 4) #
                (IF tag = TAG_HEAD
                 THEN wrapping_sub(Font_checksum(table_bytes),
                                   u32_at(table_bytes, HEAD_CHECKSUM_OFFSET))
                 ELSE Font_checksum(table_bytes))
    THEN R_Err("Checksum")
    ELSE R_Ok([tag |-> tag, bytes |-> table_bytes])))))

\* Font::parse_loca_format
\* a variant that takes every format but 0 for Long
parse_loca_format_lenient(head_cursor) ==
    IF Len(head_cursor) < 4 THEN R_Err("UnexpectedEof")
    ELSE IF u32_at(head_cursor, 0) # U32(1, 0) THEN R_Err("UnexpectedTableVersion")
    ELSE IF Len(head_cursor) < 4 + 46 + 2 THEN R_Err("UnexpectedEof")
    ELSE IF u16_at(head_cursor, 50) = 0 THEN R_Ok("Short")
    ELSE R_Ok("Long")

\* the error UnexpectedTableFormat { format } carries the format as v
parse_loca_format(head_cursor) ==
    IF Len(head_cursor) < 4 THEN R_Err("UnexpectedEof")
    ELSE IF u32_at(head_cursor, 0) # U32(1, 0) THEN R_Err("UnexpectedTableVersion")
    ELSE IF Len(head_cursor) < 4 + 46 + 2 THEN R_Err("UnexpectedEof")
    ELSE IF u16_at(head_cursor, 50) = 0 THEN R_Ok("Short")
    ELSE IF u16_at(head_cursor, 50) = 1 THEN R_Ok("Long")
    ELSE [R_Err("UnexpectedTableFormat") EXCEPT !.v = u16_at(head_cursor, 50)]

\* Font::parse_glyph_count
parse_glyph_count(maxp_cursor) ==
    IF Len(maxp_cursor) < 4 THEN R_Err("UnexpectedEof")
    ELSE IF u32_at(maxp_cursor, 0) # U32(0, 20480) /\ u32_at(maxp_cursor, 0) # U32(1, 0)
    THEN R_Err("UnexpectedTableVersion")
    ELSE IF Len(maxp_cursor) < 6 THEN R_Err("UnexpectedEof")
    ELSE R_Ok(u16_at(maxp_cursor, 4))

\* the tags Font::parse keeps a table for
KnownTags ==
    {TAG_CMAP, TAG_HEAD, TAG_HHEA, TAG_HMTX, TAG_MAXP, TAG_NAME, TAG_OS2,
     TAG_POST, TAG_LOCA, TAG_GLYF, TAG_CVT, TAG_FPGM, TAG_PREP}

\* the body of the loop over the table records of Font::parse for record i
\* (0-based): the record, and its table parsed when its tag is cmap or hhea
parse_table(bytes, i) ==
    Try(parse_table_record(BytesFrom(bytes, SFNT_HEADER_LEN + TableRecord_BYTE_LEN * i),
                           bytes),
        LAMBDA record :
    Try(IF record.tag = TAG_CMAP THEN CmapTable_parse(record.bytes)
        ELSE IF record.tag = TAG_HHEA THEN HheaTable_parse(record.bytes)
        ELSE R_Ok(record.bytes),
        LAMBDA table : R_Ok([tag |-> record.tag, table |-> table])))

\* the tables assigned by the loop from the parsed records: for each known
\* tag the table of the last record with that tag
assigned_tables(parsed) ==
    LET tags == {parsed[i].v.tag : i \in DOMAIN parsed} \cap KnownTags
        last(t) == CHOOSE i \in DOMAIN parsed :
                       /\ parsed[i].v.tag = t
                       /\ \A j \in DOMAIN parsed : parsed[j].v.tag = t => j <= i
    IN  [t \in tags |-> parsed[last(t)].v.table]

\* the `for record in table_records` loop of Font::parse over table_count
\* records: the error of the first record that fails, or the tables assigned
parse_records(bytes, table_count) ==
    Let([i \in 1..table_count |-> parse_table(bytes, i - 1)], LAMBDA parsed :
    Let({i \in DOMAIN parsed : ~IsOk(parsed[i])}, LAMBDA failed :
        IF failed # {}
        THEN parsed[CHOOSE i \in failed : \A j \in failed : i <= j]
        ELSE R_Ok(assigned_tables(parsed))))

\* the table of an optional tag
optional_table(tables, tag) ==
    IF tag \in DOMAIN tables THEN Some(tables[tag]) ELSE None

\* Font::parse after the loop over the table records
parse_tables(tables) ==
    IF TAG_HEAD \notin DOMAIN tables THEN R_Err("MissingTable")
    ELSE
    Try(parse_loca_format(tables[TAG_HEAD]), LAMBDA loca_format :
    IF TAG_MAXP \notin DOMAIN tables THEN R_Err("MissingTable")
    ELSE
    Try(parse_glyph_count(tables[TAG_MAXP]), LAMBDA glyph_count :
    IF TAG_LOCA \notin DOMAIN tables THEN R_Err("MissingTable")
    ELSE
    Try(LocaTable_new(loca_format, glyph_count, tables[TAG_LOCA]), LAMBDA loca :
    IF {TAG_HHEA, TAG_HMTX, TAG_CMAP, TAG_NAME, TAG_OS2, TAG_POST, TAG_GLYF}
           \ DOMAIN tables # {}
    THEN R_Err("MissingTable")
    ELSE R_Ok([cmap |-> tables[TAG_CMAP],
               head |-> tables[TAG_HEAD],
               hhea |-> tables[TAG_HHEA],
               hmtx |-> [raw |-> tables[TAG_HMTX],
                         number_of_h_metrics |-> tables[TAG_HHEA].number_of_h_metrics],
               maxp |-> tables[TAG_MAXP],
               name |-> tables[TAG_NAME],
               os2 |-> tables[TAG_OS2],
               post |-> tables[TAG_POST],
               loca |-> loca,
               glyf |-> tables[TAG_GLYF],
               cvt |-> optional_table(tables, TAG_CVT),
               fpgm |-> optional_table(tables, TAG_FPGM),
               prep |-> optional_table(tables, TAG_PREP)]))))

\* Font::parse
Font_parse(bytes) ==
    IF Len(bytes) < 4 THEN R_Err("UnexpectedEof")
    ELSE IF u32_at(bytes, 0) # SFNT_VERSION THEN R_Err("UnexpectedFontVersion")
    ELSE IF Len(bytes) < 12 THEN R_Err("UnexpectedEof")
    ELSE Try(parse_records(bytes, u16_at(bytes, 4)),
             LAMBDA tables : parse_tables(tables))

(***************************************************************************)
(* The source font files the subsetter is run on.  Each is an sfnt file of *)
(* raw tables with a valid directory and checksums.                        *)
(***************************************************************************)
Zeros(n) == [k \in 1..n |-> 0]

\* a head table: version 1.0, checksumAdjustment (patched by the writer),
\* the magic number, indexToLocFormat at offset 50
HeadTableBytes(loca_format) ==
    <<0, 1, 0, 0>> \o <<0, 1, 0, 0>> \o <<0, 0, 0, 0>> \o <<95, 15, 60, 245>>
    \o Zeros(34) \o u16_be_bytes(IF loca_format = "Short" THEN 0 ELSE 1) \o <<0, 0>>

\* an hhea table of 36 bytes ending with numberOfHMetrics
HheaTableBytes(number_of_h_metrics) ==
    <<0, 1, 0, 0, 3, 32, 255, 56>> \o Zeros(26) \o u16_be_bytes(number_of_h_metrics)

\* a maxp table, version 0.5 or (with trailing fields) 1.0
MaxpTableBytes(long, glyph_count) ==
    IF long THEN <<0, 1, 0, 0>> \o u16_be_bytes(glyph_count) \o <<0, 7, 0, 9, 1>>
    ELSE <<0, 0, 80, 0>> \o u16_be_bytes(glyph_count)

\* a post table of version 2.0 and the given length
PostTableBytes(len) == [k \in 1..len |-> IF k = 2 THEN 2 ELSE IF k <= 4 THEN 0 ELSE k]

\* a simple glyph (one contour) of len bytes
SimpleGlyphBytes(k, len) == <<0, 1>> \o [i \in 1..(len - 2) |-> (16 * k + i) % 256]

\* a component record: flags, glyph index, arguments and transform bytes
ComponentBytes(flags, glyph_idx, rest) ==
    u16_be_bytes(flags) \o u16_be_bytes(glyph_idx) \o rest

\* a composite glyph: numberOfContours -1, the bounding box, the components
\* and the instructions
CompositeGlyphBytes(components, instructions) ==
    <<255, 255>> \o <<0, 10, 0, 20, 1, 44, 2, 88>> \o Concat(components) \o instructions

\* the offset of every glyph in glyf, and the end of the last
RECURSIVE GlyphOffsets(_, _)
GlyphOffsets(glyphs, n) ==
    IF n = 0 THEN <<0>>
    ELSE LET before == GlyphOffsets(glyphs, n - 1) IN
         Append(before, before[n] + Len(glyphs[n]))

LocaTableBytes(loca_format, glyphs) ==
    LET offsets == GlyphOffsets(glyphs, Len(glyphs)) IN
    Concat([k \in 1..Len(offsets) |->
        IF loca_format = "Short" THEN u16_be_bytes(offsets[k] \div 2)
        ELSE u32_be_bytes(U32FromInt(offsets[k]))])

\* an hmtx table: number_of_h_metrics (advance, lsb) pairs, then lsb only
HmtxTableBytes(metrics, number_of_h_metrics) ==
    Concat([k \in 1..Len(metrics) |->
        IF k <= number_of_h_metrics
        THEN u16_be_bytes(metrics[k][1]) \o u16_be_bytes(metrics[k][2])
        ELSE u16_be_bytes(metrics[k][2])])

TAG_GSUB == <<71, 83, 85, 66>>

\* no damage, and a damage [tag, kind, at] of a table (or, with FILE, of the
\* whole file): "bump" adds 1 to the byte at the offset at (from the end when
\* at is negative), "clear" zeroes that byte, "extend" appends at zero bytes
FILE == <<>>

NoDamage == [tag |-> FILE, kind |-> "none", at |-> 0]

Damaged(damage, tag, bytes) ==
    IF damage.tag # tag \/ damage.kind = "none" THEN bytes
    ELSE IF damage.kind = "bump"
    THEN [bytes EXCEPT ![IF damage.at < 0 THEN Len(bytes) + damage.at + 1
                         ELSE damage.at + 1] = (@ + 1) % 256]
    ELSE IF damage.kind = "clear" THEN [bytes EXCEPT ![damage.at + 1] = 0]
    ELSE bytes \o Zeros(damage.at)

\* the font file of a description [char_map, glyphs, metrics,
\* number_of_h_metrics, loca_format, post_len, hinted, damage]; the checksums
\* are those of the damaged tables, and a damage of the file comes last
FontFile(d) ==
    Damaged(d.damage, FILE, into_opentype(write_tables(
        <<<<TAG_HEAD, Damaged(d.damage, TAG_HEAD, HeadTableBytes(d.loca_format))>>,
          <<TAG_GLYF, Concat(d.glyphs)>>,
          <<TAG_LOCA, Damaged(d.damage, TAG_LOCA,
                              LocaTableBytes(d.loca_format, d.glyphs))>>,
          <<TAG_CMAP, CmapTable_write(from_map(d.char_map), <<>>).v>>,
          <<TAG_HHEA, Damaged(d.damage, TAG_HHEA,
                              HheaTableBytes(d.number_of_h_metrics))>>,
          <<TAG_HMTX, HmtxTableBytes(d.metrics, d.number_of_h_metrics)>>,
          <<TAG_MAXP, Damaged(d.damage, TAG_MAXP,
                              MaxpTableBytes(d.hinted, Len(d.glyphs)))>>,
          <<TAG_NAME, <<0, 0, 0, 0, 0, 6>> >>,
          <<TAG_OS2, <<0, 4, 2, 88, 1, 144, 0>> >>,
          <<TAG_POST, PostTableBytes(d.post_len)>>>>
        \o (IF d.hinted
            THEN <<<<TAG_CVT, <<0, 50, 0, 60>> >>,
                   <<TAG_GSUB, <<0, 1, 0, 0, 0, 10>> >>,
                   <<TAG_FPGM, <<176, 1, 44>> >>,
                   <<TAG_PREP, <<184, 1, 255, 133, 0>> >> >>
            ELSE <<>>))))

\* a hinted font with a format-4 cmap and a Short loca: composites of two
\* components (word arguments, a scale) and a nested composite; the last
\* glyphs share the advance of the last full metric
HintedFont ==
    [char_map |-> <<<<65, 1>>, <<66, 3>>, <<67, 5>>, <<68, 4>>>>,
     glyphs |-> <<<<>>,
                  SimpleGlyphBytes(1, 12),
                  SimpleGlyphBytes(2, 10),
                  CompositeGlyphBytes(
                      <<ComponentBytes(MORE_COMPONENTS + ARG_1_AND_2_ARE_WORDS, 2,
                                       <<0, 1, 0, 2>>),
                        ComponentBytes(WE_HAVE_A_SCALE, 1, <<3, 4, 64, 0>>)>>,
                      <<>>),
                  SimpleGlyphBytes(4, 14),
                  CompositeGlyphBytes(<<ComponentBytes(0, 3, <<5, 6>>)>>, <<7, 7>>)>>,
     metrics |-> <<<<500, 0>>, <<600, 10>>, <<610, 20>>, <<620, 30>>, <<0, 40>>, <<0, 50>>>>,
     number_of_h_metrics |-> 4,
     loca_format |-> "Short",
     post_len |-> 40,
     hinted |-> TRUE,
     damage |-> NoDamage]

\* a font with a format-12 cmap and a Long loca: a glyph of 130 bytes (1), a
\* glyph of odd length (3), a composite with an x-and-y scale and a
\* two-by-two transform
LongFont ==
    [char_map |-> <<<<65, 1>>, <<66, 2>>, <<65536, 3>>>>,
     glyphs |-> <<SimpleGlyphBytes(0, 6),
                  SimpleGlyphBytes(1, 130),
                  CompositeGlyphBytes(
                      <<ComponentBytes(MORE_COMPONENTS + WE_HAVE_AN_X_AND_Y_SCALE, 3,
                                       <<1, 2, 64, 0, 32, 0>>),
                        ComponentBytes(WE_HAVE_A_TWO_BY_TWO, 1,
                                       <<3, 4, 64, 0, 0, 0, 0, 0, 64, 0>>)>>,
                      <<>>),
                  SimpleGlyphBytes(3, 9)>>,
     metrics |-> <<<<500, 0>>, <<600, 10>>, <<600, 20>>, <<600, 30>>>>,
     number_of_h_metrics |-> 4,
     loca_format |-> "Long",
     post_len |-> 32,
     hinted |-> FALSE,
     damage |-> NoDamage]

\* a font whose glyph 0 is a composite of glyph 2
CompositeNotdefFont ==
    [char_map |-> <<<<65, 1>>>>,
     glyphs |-> <<CompositeGlyphBytes(<<ComponentBytes(0, 2, <<0, 0>>)>>, <<>>),
                  SimpleGlyphBytes(1, 10),
                  SimpleGlyphBytes(2, 10)>>,
     metrics |-> <<<<500, 0>>, <<600, 10>>, <<700, 20>>>>,
     number_of_h_metrics |-> 3,
     loca_format |-> "Short",
     post_len |-> 32,
     hinted |-> FALSE,
     damage |-> NoDamage]

\* a font with a composite of itself (glyph 1) and a cycle of two
\* composites (glyphs 2 and 3)
CyclicFont ==
    [char_map |-> <<<<65, 1>>, <<66, 2>>, <<67, 4>>>>,
     glyphs |-> <<<<>>,
                  CompositeGlyphBytes(<<ComponentBytes(0, 1, <<0, 0>>)>>, <<>>),
                  CompositeGlyphBytes(<<ComponentBytes(0, 3, <<0, 0>>)>>, <<>>),
                  CompositeGlyphBytes(<<ComponentBytes(0, 2, <<0, 0>>)>>, <<>>),
                  SimpleGlyphBytes(4, 10)>>,
     metrics |-> <<<<500, 0>>, <<600, 10>>, <<600, 20>>, <<600, 30>>, <<600, 40>>>>,
     number_of_h_metrics |-> 2,
     loca_format |-> "Short",
     post_len |-> 32,
     hinted |-> FALSE,
     damage |-> NoDamage]

\* a font with a post table shorter than its 32-byte header
ShortPostFont ==
    [char_map |-> <<<<65, 1>>, <<66, 1>>>>,
     glyphs |-> <<<<>>, SimpleGlyphBytes(1, 10)>>,
     metrics |-> <<<<500, 0>>, <<600, 10>>>>,
     number_of_h_metrics |-> 2,
     loca_format |-> "Short",
     post_len |-> 16,
     hinted |-> FALSE,
     damage |-> NoDamage]

\* a font with a composite of a glyph the font does not have; glyph 2 has
\* the advance of glyph 0
DanglingFont ==
    [char_map |-> <<<<65, 1>>, <<66, 2>>>>,
     glyphs |-> <<<<>>,
                  CompositeGlyphBytes(<<ComponentBytes(0, 9, <<0, 0>>)>>, <<>>),
                  SimpleGlyphBytes(2, 10)>>,
     metrics |-> <<<<500, 0>>, <<600, 10>>, <<500, 20>>>>,
     number_of_h_metrics |-> 3,
     loca_format |-> "Short",
     post_len |-> 32,
     hinted |-> FALSE,
     damage |-> NoDamage]

\* LongFont with a damage
DamagedFont(tag, kind, at) ==
    [LongFont EXCEPT !.damage = [tag |-> tag, kind |-> kind, at |-> at]]

\* the font files: the fonts above, a copy of the first with a byte of its
\* last table changed, and copies of LongFont with length 0 in the record of
\* head (the fourth record), the offset of the first record moved by one,
\* the length of the first record past the file, sfntVersion 0x00020000,
\* indexToLocFormat 2, a head and a maxp of version 2.0, an hhea of 40 bytes
\* and a loca of one entry more
FontFiles ==
    <<FontFile(HintedFont), FontFile(LongFont), FontFile(CompositeNotdefFont),
      FontFile(CyclicFont), FontFile(ShortPostFont), FontFile(DanglingFont),
      FontFile([HintedFont EXCEPT !.damage = [tag |-> FILE, kind |-> "bump", at |-> -8]]),
      FontFile(DamagedFont(FILE, "clear", SFNT_HEADER_LEN + 3 * TableRecord_BYTE_LEN + 15)),
      FontFile(DamagedFont(FILE, "bump", SFNT_HEADER_LEN + 11)),
      FontFile(DamagedFont(FILE, "bump", SFNT_HEADER_LEN + 12)),
      FontFile(DamagedFont(FILE, "bump", 1)),
      FontFile(DamagedFont(TAG_HEAD, "bump", LOCA_FORMAT_OFFSET + 1)),
      FontFile(DamagedFont(TAG_HEAD, "bump", 1)),
      FontFile(DamagedFont(TAG_MAXP, "bump", 1)),
      FontFile(DamagedFont(TAG_HHEA, "extend", 4)),
      FontFile(DamagedFont(TAG_LOCA, "extend", 4))>>

FontIds == 1..16

(***************************************************************************)
(* The subsetting pipeline: Font::parse of a source file, FontSubset::new  *)
(* (empty, then push_char for every char in ascending order),              *)
(* to_truetype, and Font::parse of the output.                             *)
(***************************************************************************)
\* the most chars FontSubset::new is given
MaxRetained == 3

\* the chars a subset is asked to retain: 'A'..'D', 'Z', U+FFFF, U+10000
RetainChars == {65, 66, 67, 68, 90, 65535, 65536}

\* the chars looked up in the output
LookupChars == RetainChars \cup {0, 64, 69, 65534, 65537, 1114111}

\* a BTreeSet<char> in iteration order
RECURSIVE Ascending(_)
Ascending(S) ==
    IF S = {} THEN <<>>
    ELSE LET least == CHOOSE c \in S : \A d \in S : c <= d IN
         <<least>> \o Ascending(S \ {least})

EmptySubset == [char_map |-> <<>>, old_to_new_glyph_idx |-> <<>>, glyphs |-> <<>>]

Init ==
    /\ B128Idle
    /\ CmIdle
    /\ LocaIdle
    /\ FwIdle
    /\ CrIdle
    /\ HmIdle
    /\ phase = "input"
    /\ fontId \in FontIds
    /\ sourceFont = R_Err("none")
    /\ pending = <<>>
    /\ retained = <<>>
    /\ subset = EmptySubset
    /\ output = <<>>
    /\ reparsed = R_Err("none")
    /\ woff2 = <<>>

\* Font::parse of the source file
ParseSource ==
    /\ phase = "input"
    /\ sourceFont' = Font_parse(FontFiles[fontId])
    /\ phase' = IF IsOk(sourceFont') THEN "source_parsed"
                ELSE IF sourceFont'.tag = "Panic" THEN "source_panic"
                ELSE "source_rejected"
    /\ UNCHANGED <<fontId, pending, retained, subset, output, reparsed, woff2, b128vars, cmvars, locavars, fwvars, crvars, hmvars>>

\* FontSubset::new up to its loop: Self::empty(font)?
NewEmpty ==
    /\ phase = "source_parsed"
    /\ \E chars \in {S \in SUBSET RetainChars : Cardinality(S) <= MaxRetained} :
           /\ retained' = Ascending(chars)
           /\ pending' = Ascending(chars)
    /\ \E this \in {FontSubset_empty(sourceFont.v)} :
           /\ subset' = IF IsOk(this) THEN this.v ELSE subset
           /\ phase' = IF IsOk(this) THEN "build" ELSE "error"
    /\ UNCHANGED <<fontId, sourceFont, output, reparsed, woff2, b128vars, cmvars, locavars, fwvars, crvars, hmvars>>

\* one iteration of the loop of FontSubset::new: this.push_char(ch)?
PushChar ==
    /\ phase = "build"
    /\ pending # <<>>
    /\ \E r \in {push_char(sourceFont.v, subset, Head(pending))} :
           /\ subset' = r.self
           /\ phase' = IF r.tag = "Ok" THEN "build"
                       ELSE IF r.tag = "StackOverflow" THEN "stack_overflow"
                       ELSE "error"
    /\ pending' = Tail(pending)
    /\ UNCHANGED <<fontId, sourceFont, retained, output, reparsed, woff2, b128vars, cmvars, locavars, fwvars, crvars, hmvars>>

\* FontSubset::to_truetype of the subset FontSubset::new returned
ToTrueType ==
    /\ phase = "build"
    /\ pending = <<>>
    /\ \E ttf \in {to_truetype(sourceFont.v, subset)} :
           /\ output' = IF IsOk(ttf) THEN ttf.v ELSE output
           /\ phase' = IF IsOk(ttf) THEN "written" ELSE "write_panic"
    /\ UNCHANGED <<fontId, sourceFont, pending, retained, subset, reparsed, woff2, b128vars, cmvars, locavars, fwvars, crvars, hmvars>>

\* FontSubset::to_woff2 of the subset FontSubset::new returned
ToWoff2 ==
    /\ phase = "build"
    /\ pending = <<>>
    /\ \E pad \in 0..3 :
       \E file \in {to_woff2(sourceFont.v, subset, pad)} :
           /\ woff2' = IF IsOk(file) THEN file.v ELSE woff2
           /\ phase' = IF IsOk(file) THEN "woff2_written" ELSE "write_panic"
    /\ UNCHANGED <<fontId, sourceFont, pending, retained, subset, output, reparsed, b128vars, cmvars, locavars, fwvars, crvars, hmvars>>

\* Font::parse of the output
ParseOutput ==
    /\ phase = "written"
    /\ reparsed' = Font_parse(output)
    /\ phase' = "reparsed"
    /\ UNCHANGED <<fontId, sourceFont, pending, retained, subset, output, woff2, b128vars, cmvars, locavars, fwvars, crvars, hmvars>>

Next == ParseSource \/ NewEmpty \/ PushChar \/ ToTrueType \/ ToWoff2 \/ ParseOutput

Spec == Init /\ [][Next]_vars

(***************************************************************************)
(* Properties of the pipeline                                              *)
(***************************************************************************)
\* to_truetype returned the output
Written == phase \in {"written", "reparsed"}

\* the number of directory records the file announces
TableCount(bytes) == u16_at(bytes, 4)

\* the i-th directory record of the file (from 0), as written
Record(bytes, i) ==
    [tag |-> Slice(bytes, 12 + 16 * i, 16 + 16 * i),
     checksum |-> u32_at(bytes, 16 + 16 * i),
     offset |-> U32ToInt(u32_at(bytes, 20 + 16 * i)),
     length |-> U32ToInt(u32_at(bytes, 24 + 16 * i))]

\* the wrapping sum of tag + checksum + offset + length + checksum over the
\* first n records of the file
RECURSIVE RecordSum(_, _)
RecordSum(bytes, n) ==
    IF n = 0 THEN U32(0, 0)
    ELSE LET record == Record(bytes, n - 1) IN
         wrapping_add(RecordSum(bytes, n - 1),
             wrapping_add(wrapping_add(wrapping_add(wrapping_add(
                 u32_from_be_bytes(record.tag[1], record.tag[2],
                                   record.tag[3], record.tag[4]),
                 record.checksum), U32FromInt(record.offset)),
                 U32FromInt(record.length)), record.checksum))

\* the directory record of the head table in the file
HeadRecord(bytes) ==
    Record(bytes, CHOOSE i \in 0..(TableCount(bytes) - 1) : Record(bytes, i).tag = TAG_HEAD)

\* C1: the bytes to_truetype returns, read as big-endian u32 words, sum to
\* 0xB1B0AFBA modulo 2^32, and the value at offset 8 of the head table is
\* 0xB1B0AFBA minus (the checksum of the 12-byte sfnt header plus the sum
\* over all records of tag + checksum + final offset + length + checksum).
C1_FileChecksum ==
    Written =>
        /\ Len(output) % 4 = 0
        /\ Font_checksum(output) = SFNT_CHECKSUM
        /\ u32_at(output, HeadRecord(output).offset + HEAD_CHECKSUM_OFFSET)
               = wrapping_sub(SFNT_CHECKSUM,
                     wrapping_add(Font_checksum(Slice(output, 0, 12)),
                                  RecordSum(output, TableCount(output))))

\* C1 witness: an output with the optional tables (thirteen records, some of
\* them padded) was written
C1_Witness ==
    /\ Written
    /\ TableCount(output) = 13
    /\ Len(subset.glyphs) >= 4

\* C2: Font::parse of the to_truetype output succeeds: hhea has 36 bytes,
\* the loca table has bytes_per_offset * (numGlyphs + 1) bytes for the
\* format head announces, and numGlyphs is the number of subset glyphs.
C2_OutputReparses ==
    phase = "reparsed" =>
        /\ IsOk(reparsed)
        /\ Len(reparsed.v.hhea.raw) = HHEA_EXPECTED_LEN
        /\ u16_at(reparsed.v.maxp, 4) = Len(subset.glyphs)
        /\ IsOk(parse_loca_format(reparsed.v.head))
        /\ reparsed.v.loca.format = parse_loca_format(reparsed.v.head).v
        /\ Len(reparsed.v.loca.cursor)
               = bytes_per_offset(reparsed.v.loca.format) * (Len(subset.glyphs) + 1)
        /\ \A i \in 0..(TableCount(output) - 1) :
               LET record == Record(output, i) IN
               /\ record.offset % 4 = 0
               /\ record.offset + record.length <= Len(output)

\* C2 witness: an output whose loca format differs from the source's (Long
\* source, Short output, or the reverse) was parsed again
C2_Witness ==
    /\ phase = "reparsed"
    /\ IsOk(reparsed)
    /\ reparsed.v.loca.format # sourceFont.v.loca.format
    /\ Len(subset.glyphs) >= 2

\* the glyph the output font maps the char to
OutputLookup(ch) == Font_map_char(reparsed.v, ch)

\* C3 as claimed: looking up any retained char in the output font returns a
\* non-zero glyph id.
C3_RetainedNonZeroAsClaimed ==
    (phase = "reparsed" /\ IsOk(reparsed)) =>
        \A k \in 1..Len(retained) :
            /\ IsOk(OutputLookup(retained[k]))
            /\ OutputLookup(retained[k]).v # 0

\* C3 amended: looking up any retained char in the output font returns the
\* new index of the glyph the source font maps the char to; it is non-zero
\* exactly when the source font maps the char to a glyph other than 0.
C3_RetainedLookup ==
    (phase = "reparsed" /\ IsOk(reparsed)) =>
        \A k \in 1..Len(retained) :
            LET old == Font_map_char(sourceFont.v, retained[k])
                new == OutputLookup(retained[k])
            IN  /\ IsOk(old)
                /\ IsOk(new)
                /\ old.v \in DOMAIN subset.old_to_new_glyph_idx
                /\ new.v = subset.old_to_new_glyph_idx[old.v]
                /\ new.v < Len(subset.glyphs)
                /\ (new.v # 0) <=> (old.v # 0)

\* C3 witness: the output maps a retained char to a glyph whose index
\* changed, and a retained char the source font lacks to glyph 0
C3_Witness ==
    /\ phase = "reparsed"
    /\ IsOk(reparsed)
    /\ \E k \in 1..Len(retained) :
           /\ OutputLookup(retained[k]).v # 0
           /\ OutputLookup(retained[k]).v # Font_map_char(sourceFont.v, retained[k]).v
    /\ \E k \in 1..Len(retained) : OutputLookup(retained[k]) = R_Ok(0)

\* the chars looked up that are not retained
NotRetained == LookupChars \ {retained[k] : k \in 1..Len(retained)}

\* C4 as claimed: map_char on the parsed output returns glyph 0 for every
\* char that is not retained, for a format-4 and a format-12 output cmap.
C4_NotRetainedIsZeroAsClaimed ==
    (phase = "reparsed" /\ IsOk(reparsed)) =>
        \A c \in NotRetained : OutputLookup(c) = R_Ok(0)

\* C4 amended: for a char that is not retained, map_char on the parsed
\* output returns glyph 0 if the char is at most U+FFFF (U+FFFF, covered by
\* the format-4 sentinel segment, included) or the output cmap is format 12;
\* for a char above U+FFFF and a format-4 output cmap it fails with
\* CharTooLarge.
C4_NotRetainedLookup ==
    (phase = "reparsed" /\ IsOk(reparsed)) =>
        \A c \in NotRetained :
            IF c <= 65535 \/ reparsed.v.cmap.kind = "Coverage"
            THEN OutputLookup(c) = R_Ok(0)
            ELSE OutputLookup(c) = R_Err("CharTooLarge")

\* C4 witness: a format-4 output with 'A' retained maps 'B' and U+FFFF to
\* glyph 0
C4_Witness ==
    /\ phase = "reparsed"
    /\ IsOk(reparsed)
    /\ reparsed.v.cmap.kind = "Deltas"
    /\ retained = <<65>>
    /\ OutputLookup(65).v # 0
    /\ OutputLookup(66) = R_Ok(0)
    /\ OutputLookup(65535) = R_Ok(0)

\* the glyph of the source font a subset glyph was taken from
OldIdx(new_idx) ==
    CHOOSE old \in DOMAIN subset.old_to_new_glyph_idx :
        subset.old_to_new_glyph_idx[old] = new_idx

\* C6: Subset closure.  After the push_char calls that succeeded, every
\* component of every composite glyph in subset.glyphs carries a glyph index
\* < glyphs.len(), and that index is the new index old_to_new_glyph_idx
\* assigns to the glyph the component referenced in the source font.
C6_SubsetClosure ==
    phase = "build" =>
        \A n \in 1..Len(subset.glyphs) :
            LET glyph == subset.glyphs[n].inner
                original == Font_glyph(sourceFont.v, OldIdx(n - 1)).v.inner
            IN  \A i \in 1..Len(glyph.components) :
                    /\ glyph.components[i].glyph_idx < Len(subset.glyphs)
                    /\ original.components[i].glyph_idx
                           \in DOMAIN subset.old_to_new_glyph_idx
                    /\ glyph.components[i].glyph_idx
                           = subset.old_to_new_glyph_idx[original.components[i].glyph_idx]

\* C7: Subsetting always terminates: building the subset of a font with a
\* composite of itself or a cycle of composites ends with a parse error, it
\* never recurses until the stack is exhausted.
C7_NoUnboundedRecursion == phase # "stack_overflow"

\* the place (from 0) in the directory of the file of the record with the tag
RecordIndex(bytes, tag) ==
    CHOOSE i \in 0..(TableCount(bytes) - 1) : Record(bytes, i).tag = tag

\* the bytes of the table the directory of the file records for the tag
TableBytes(bytes, tag) ==
    Slice(bytes, Record(bytes, RecordIndex(bytes, tag)).offset,
          Record(bytes, RecordIndex(bytes, tag)).offset
              + Record(bytes, RecordIndex(bytes, tag)).length)

\* all glyphs with new index >= n - 1 have the same advance
SameAdvanceFrom(glyphs, n) ==
    \A i \in n..Len(glyphs) : glyphs[i].advance = glyphs[Len(glyphs)].advance

\* C11: Hmtx tail compression.  HmtxTable::write_for_glyphs returns the
\* smallest n >= 1 such that all glyphs with new index >= n - 1 have the same
\* advance; this n is the last u16 of the hhea table of the output (and the
\* hmtx table has n full metrics and a left side bearing for the rest); if
\* all retained glyphs share the advance, numberOfHMetrics is 1.
C11_HmtxTailCompression ==
    Written =>
        /\ write_for_glyphs_result(subset.glyphs) >= 1
        /\ SameAdvanceFrom(subset.glyphs, write_for_glyphs_result(subset.glyphs))
        /\ \A m \in 1..(write_for_glyphs_result(subset.glyphs) - 1) :
               ~SameAdvanceFrom(subset.glyphs, m)
        /\ Len(TableBytes(output, TAG_HHEA)) = HHEA_EXPECTED_LEN
        /\ u16_at(TableBytes(output, TAG_HHEA), HHEA_EXPECTED_LEN - 2)
               = write_for_glyphs_result(subset.glyphs)
        /\ Len(TableBytes(output, TAG_HMTX))
               = 2 * Len(subset.glyphs) + 2 * write_for_glyphs_result(subset.glyphs)
        /\ SameAdvanceFrom(subset.glyphs, 1)
               => u16_at(TableBytes(output, TAG_HHEA), HHEA_EXPECTED_LEN - 2) = 1

\* C11 witness: an output of two glyphs or more that share the advance, with
\* numberOfHMetrics 1 in its hhea
C11_Witness ==
    /\ Written
    /\ Len(subset.glyphs) >= 2
    /\ SameAdvanceFrom(subset.glyphs, 1)
    /\ u16_at(TableBytes(output, TAG_HHEA), HHEA_EXPECTED_LEN - 2) = 1

\* ---- LocaTable::write and write_head_table over glyph lengths ----

\* the most glyphs of a glyf table below
MaxLocaGlyphs == 3

\* glyph lengths: odd and even ones, and ones that bring the size of the glyf
\* table to 2 * u16::MAX and over it
LocaLenSamples == {0, 1, 2, 12, 65534, 65536, 131068, 131070}

LocaLens == UNION {[1..n -> LocaLenSamples] : n \in 0..MaxLocaGlyphs}

RECURSIVE LocaSize(_, _)
LocaSize(lens, n) == IF n = 0 THEN 0 ELSE LocaSize(lens, n - 1) + lens[n]

\* the locations the glyf closure of to_writer returns for glyphs of the
\* lengths: vec![0], and the size of the buffer after each glyph
LocationsOf(lens) == [k \in 1..(Len(lens) + 1) |-> LocaSize(lens, k - 1)]

InitLoca ==
    /\ loca_pc = "start"
    /\ loca_locations \in {LocationsOf(lens) : lens \in LocaLens}
    /\ loca_written = [format |-> "Short", bytes |-> <<>>, head |-> <<>>]
    /\ B128Idle
    /\ CmIdle
    /\ SubIdle
    /\ FwIdle
    /\ CrIdle
    /\ HmIdle

\* the loca and head closures of to_writer
LocaWrite ==
    /\ loca_pc = "start"
    /\ \E original \in {HeadTableBytes("Short"), HeadTableBytes("Long")} :
           loca_written' =
               [format |-> LocaTable_write_format(loca_locations),
                bytes |-> LocaTable_write(loca_locations, <<>>),
                head |-> write_head_table(original,
                             LocaTable_write_format(loca_locations), <<>>)]
    /\ loca_pc' = "written"
    /\ UNCHANGED <<loca_locations, b128vars, cmvars, subvars, fwvars, crvars, hmvars>>

NextLoca == LocaWrite

SpecLoca == InitLoca /\ [][NextLoca]_vars

\* entry k (from 1) of the written loca table, decoded
LocaEntry(k) ==
    IF loca_written.format = "Short"
    THEN 2 * u16_at(loca_written.bytes, 2 * (k - 1))
    ELSE U32ToInt(u32_at(loca_written.bytes, 4 * (k - 1)))

\* C12: loca format selection.  LocaTable::write chooses Short exactly when
\* every glyph length is even and the size of the glyf table is at most
\* 2 * 0xFFFF, and Long otherwise; the indexToLocFormat written to head is 0
\* for Short and 1 for Long; there are glyphs.len() + 1 entries, which decode
\* (value * 2 for Short, value for Long) to the glyph offsets, starting at 0.
C12_LocaFormatSelection ==
    loca_pc = "written" =>
        /\ loca_written.format = "Short" <=>
               /\ \A k \in 1..(Len(loca_locations) - 1) :
                      (loca_locations[k + 1] - loca_locations[k]) % 2 = 0
               /\ loca_locations[Len(loca_locations)] <= 2 * 65535
        /\ loca_written.format \in {"Short", "Long"}
        /\ u16_at(loca_written.head, LOCA_FORMAT_OFFSET)
               = (IF loca_written.format = "Short" THEN 0 ELSE 1)
        /\ Len(loca_written.bytes)
               = bytes_per_offset(loca_written.format) * Len(loca_locations)
        /\ LocaEntry(1) = 0
        /\ \A k \in 1..Len(loca_locations) : LocaEntry(k) = loca_locations[k]

\* C12 witness: a Short loca of a glyf table of 2 * 0xFFFF bytes
C12_Witness ==
    /\ loca_pc = "written"
    /\ Len(loca_locations) = 3
    /\ loca_locations[3] = 2 * 65535
    /\ loca_written.format = "Short"
    /\ u16_at(loca_written.bytes, 4) = 65535
    /\ u16_at(loca_written.head, LOCA_FORMAT_OFFSET) = 0

\* a Long loca of a glyf table of even glyph lengths and 2 * 0xFFFF + 2 bytes
C12_WitnessLong ==
    /\ loca_pc = "written"
    /\ loca_locations = <<0, 65536, 131072>>
    /\ loca_written.format = "Long"
    /\ u16_at(loca_written.head, LOCA_FORMAT_OFFSET) = 1

\* C13: to_opentype and to_woff2 never fail.  For every FontSubset built from
\* a successfully parsed Font and any retained chars, the writers return a
\* byte buffer without aborting: no out-of-range slice of a source table such
\* as post[4..32] and no failed integer narrowing.
C13_WritersNeverFail ==
    (phase \in {"build", "written", "woff2_written", "reparsed", "write_panic"}
         /\ pending = <<>>)
        => /\ IsOk(sourceFont)
           /\ phase # "write_panic"
           /\ to_writer(sourceFont.v, subset).tag # "Panic"

\* C14: Font::parse is total.  For every input byte buffer it returns a Font
\* or a ParseError and never aborts; a directory whose head record has a
\* length below 12 yields an error value.
C14_ParseIsTotal ==
    /\ sourceFont.tag \in {"Ok", "Err"}
    /\ phase # "source_panic"
    /\ (phase # "input" /\ fontId \in FontIds
           /\ \E i \in 0..(TableCount(FontFiles[fontId]) - 1) :
                  /\ Record(FontFiles[fontId], i).tag = TAG_HEAD
                  /\ Record(FontFiles[fontId], i).length < HEAD_CHECKSUM_OFFSET + 4)
        => sourceFont.tag = "Err"

\* the range of record i of the file is inside the file
RecordInBounds(bytes, i) ==
    Record(bytes, i).offset + Record(bytes, i).length <= Len(bytes)

RecordAligned(bytes, i) == Record(bytes, i).offset % 4 = 0

\* the checksum of record i is the sum of the words of its table (for head,
\* minus the u32 at offset 8)
RecordChecksumOk(bytes, i) ==
    Record(bytes, i).checksum =
        (IF Record(bytes, i).tag = TAG_HEAD
         THEN wrapping_sub(
                  Font_checksum(Slice(bytes, Record(bytes, i).offset,
                      Record(bytes, i).offset + Record(bytes, i).length)),
                  u32_at(bytes, Record(bytes, i).offset + HEAD_CHECKSUM_OFFSET))
         ELSE Font_checksum(Slice(bytes, Record(bytes, i).offset,
                  Record(bytes, i).offset + Record(bytes, i).length)))

RecordOk(bytes, i) ==
    /\ RecordInBounds(bytes, i)
    /\ RecordAligned(bytes, i)
    /\ RecordChecksumOk(bytes, i)

\* record i is the first record Font::parse stops at: the records before it
\* (and their cmap and hhea tables) parse
FirstStop(bytes, i) ==
    /\ i \in 0..(TableCount(bytes) - 1)
    /\ ~RecordOk(bytes, i)
    /\ \A j \in 0..(i - 1) : RecordOk(bytes, j) /\ IsOk(parse_table(bytes, j))

\* C15: parsing is strict about the container.  Font::parse returns Ok only
\* if every record of the directory has an in-bounds range, a 4-byte-aligned
\* offset and a checksum equal to the wrapping sum of the big-endian u32 words
\* of the table, the last one zero-padded (for head, minus the u32 at offset
\* 8); it stops at an unaligned record with UnalignedTable and at a record of
\* another checksum with Checksum.
C15_StrictContainer ==
    (phase # "input" /\ fontId \in FontIds) =>
        /\ IsOk(sourceFont) =>
               \A i \in 0..(TableCount(FontFiles[fontId]) - 1) :
                   RecordOk(FontFiles[fontId], i)
        /\ (Slice(FontFiles[fontId], 0, 4) = <<0, 1, 0, 0>>) =>
               \A i \in 0..(TableCount(FontFiles[fontId]) - 1) :
                   FirstStop(FontFiles[fontId], i) =>
                       /\ ~RecordInBounds(FontFiles[fontId], i)
                              => sourceFont = R_Err("RangeOutOfBounds")
                       /\ (RecordInBounds(FontFiles[fontId], i)
                             /\ ~RecordAligned(FontFiles[fontId], i))
                              => sourceFont = R_Err("UnalignedTable")
                       /\ (RecordInBounds(FontFiles[fontId], i)
                             /\ RecordAligned(FontFiles[fontId], i)
                             /\ (Record(FontFiles[fontId], i).tag = TAG_HEAD
                                   => Record(FontFiles[fontId], i).length
                                          >= HEAD_CHECKSUM_OFFSET + 4))
                              => sourceFont = R_Err("Checksum")

\* C15 witness: a file with an unaligned record is rejected with
\* UnalignedTable
C15_Witness ==
    /\ phase = "source_rejected"
    /\ sourceFont = R_Err("UnalignedTable")
    /\ \E i \in 0..(TableCount(FontFiles[fontId]) - 1) :
           FirstStop(FontFiles[fontId], i) /\ ~RecordAligned(FontFiles[fontId], i)

\* a file whose records are all in bounds, aligned and of the right checksum
\* is accepted
C15_WitnessOk ==
    /\ phase = "source_parsed"
    /\ \A i \in 0..(TableCount(FontFiles[fontId]) - 1) : RecordOk(FontFiles[fontId], i)

\* a file with a record of another checksum is rejected with Checksum
C15_WitnessChecksum ==
    /\ phase = "source_rejected"
    /\ sourceFont = R_Err("Checksum")
    /\ \E i \in 0..(TableCount(FontFiles[fontId]) - 1) :
           FirstStop(FontFiles[fontId], i) /\ ~RecordChecksumOk(FontFiles[fontId], i)

\* the cross-table invariants of a Font
FontInvariant(font) ==
    /\ u32_at(font.head, 0) = U32(1, 0)
    /\ u16_at(font.head, LOCA_FORMAT_OFFSET) \in {0, 1}
    /\ u32_at(font.maxp, 0) \in {U32(0, 20480), U32(1, 0)}
    /\ Len(font.hhea.raw) = 36
    /\ font.loca.format
           = (IF u16_at(font.head, LOCA_FORMAT_OFFSET) = 0 THEN "Short" ELSE "Long")
    /\ Len(font.loca.cursor)
           = (IF u16_at(font.head, LOCA_FORMAT_OFFSET) = 0 THEN 2 ELSE 4)
                 * (u16_at(font.maxp, 4) + 1)

\* every record of the file parses, and the file has one head, one maxp and
\* one loca table
TablesParse(bytes) ==
    /\ \A i \in 0..(TableCount(bytes) - 1) :
           RecordOk(bytes, i) /\ IsOk(parse_table(bytes, i))
    /\ \A tag \in {TAG_HEAD, TAG_MAXP, TAG_LOCA} :
           Cardinality({i \in 0..(TableCount(bytes) - 1) : Record(bytes, i).tag = tag}) = 1

\* C16: every Font that Font::parse returns has sfntVersion 0x00010000, head
\* version 0x00010000 with indexToLocFormat 0 or 1, maxp version 0x00005000
\* or 0x00010000, an hhea of 36 bytes and a loca of bytes_per_offset *
\* (numGlyphs + 1) bytes; an input with a first u32 of 0x00020000 is rejected
\* with UnexpectedFontVersion, one with indexToLocFormat 2 with
\* UnexpectedTableFormat(2), one with another loca length with
\* UnexpectedTableLen.
C16_FontInvariants ==
    /\ IsOk(sourceFont) =>
           u32_at(FontFiles[fontId], 0) = U32(1, 0) /\ FontInvariant(sourceFont.v)
    /\ IsOk(reparsed) => u32_at(output, 0) = U32(1, 0) /\ FontInvariant(reparsed.v)
    /\ (phase # "input" /\ fontId \in FontIds) =>
           /\ u32_at(FontFiles[fontId], 0) = U32(2, 0)
                  => sourceFont = R_Err("UnexpectedFontVersion")
           /\ (u32_at(FontFiles[fontId], 0) = U32(1, 0) /\ TablesParse(FontFiles[fontId])
                 /\ u32_at(TableBytes(FontFiles[fontId], TAG_HEAD), 0) = U32(1, 0))
                  => /\ u16_at(TableBytes(FontFiles[fontId], TAG_HEAD), LOCA_FORMAT_OFFSET) = 2
                         => sourceFont.tag = "Err"
                            /\ sourceFont.kind = "UnexpectedTableFormat"
                            /\ sourceFont.v = 2
                     /\ (u16_at(TableBytes(FontFiles[fontId], TAG_HEAD), LOCA_FORMAT_OFFSET)
                             \in {0, 1}
                         /\ u32_at(TableBytes(FontFiles[fontId], TAG_MAXP), 0)
                             \in {U32(0, 20480), U32(1, 0)}
                         /\ Len(TableBytes(FontFiles[fontId], TAG_LOCA))
                             # (2 + 2 * u16_at(TableBytes(FontFiles[fontId], TAG_HEAD),
                                                LOCA_FORMAT_OFFSET))
                                   * (u16_at(TableBytes(FontFiles[fontId], TAG_MAXP), 4) + 1))
                         => sourceFont = R_Err("UnexpectedTableLen")

\* C16 witness: a file with indexToLocFormat 2 is rejected with
\* UnexpectedTableFormat(2)
C16_Witness ==
    /\ phase = "source_rejected"
    /\ u16_at(TableBytes(FontFiles[fontId], TAG_HEAD), LOCA_FORMAT_OFFSET) = 2
    /\ sourceFont.kind = "UnexpectedTableFormat"
    /\ sourceFont.v = 2

\* a file with a first u32 of 0x00020000 is rejected
C16_WitnessFontVersion ==
    /\ phase = "source_rejected"
    /\ u32_at(FontFiles[fontId], 0) = U32(2, 0)
    /\ sourceFont = R_Err("UnexpectedFontVersion")

\* a file with a loca of another length is rejected
C16_WitnessLocaLen ==
    /\ phase = "source_rejected"
    /\ TablesParse(FontFiles[fontId])
    /\ Len(TableBytes(FontFiles[fontId], TAG_LOCA))
           = 4 * (u16_at(TableBytes(FontFiles[fontId], TAG_MAXP), 4) + 2)
    /\ sourceFont = R_Err("UnexpectedTableLen")

\* a Font with a maxp of version 0.5 and one with a Long loca are returned
C16_WitnessOk ==
    /\ IsOk(sourceFont)
    /\ IsOk(reparsed)
    /\ u32_at(sourceFont.v.maxp, 0) = U32(0, 20480)
    /\ sourceFont.v.loca.format = "Long"

\* FontSubset::new has returned a FontSubset
SubsetBuilt ==
    \/ phase = "build" /\ pending = <<>>
    \/ phase \in {"written", "woff2_written", "write_panic", "reparsed"}

\* C17: subsetting is all-or-nothing on mapping errors.  If map_char fails
\* for a requested char (CharTooLarge for a char above 0xFFFF and a format-4
\* source cmap), FontSubset::new returns an error and no FontSubset: no
\* subset is built and nothing is written.
C17_AllOrNothing ==
    (IsOk(sourceFont) /\ phase # "source_parsed") =>
        /\ (\E k \in 1..Len(retained) : ~IsOk(Font_map_char(sourceFont.v, retained[k])))
               => ~SubsetBuilt /\ output = <<>> /\ woff2 = <<>>
        /\ \A k \in 1..(Len(retained) - Len(pending)) :
               ~IsOk(Font_map_char(sourceFont.v, retained[k]))
                   => /\ phase = "error"
                      /\ k = Len(retained) - Len(pending)
                      /\ \A j \in 1..Len(subset.char_map) :
                             subset.char_map[j][1] # retained[k]

\* C17 witness: a char above 0xFFFF and a font with a format-4 cmap; the
\* chars before it were pushed and FontSubset::new returned the error
C17_Witness ==
    /\ phase = "error"
    /\ IsOk(sourceFont)
    /\ Len(retained) >= 2
    /\ retained[Len(retained) - Len(pending)] > 65535
    /\ Font_map_char(sourceFont.v, retained[Len(retained) - Len(pending)])
           = R_Err("CharTooLarge")
    /\ Len(subset.char_map) = Len(retained) - Len(pending) - 1

\* the order of the writes of to_writer
WriteOrder ==
    <<TAG_CMAP, TAG_CVT, TAG_FPGM, TAG_HMTX, TAG_HHEA, TAG_MAXP, TAG_NAME, TAG_OS2,
      TAG_POST, TAG_PREP, TAG_GLYF, TAG_LOCA, TAG_HEAD>>

\* the tables to_writer writes for the font, in the order of the writes
WrittenTags(font) ==
    SelectSeq(WriteOrder, LAMBDA t :
        /\ t = TAG_CVT => font.cvt # None
        /\ t = TAG_FPGM => font.fpgm # None
        /\ t = TAG_PREP => font.prep # None)

\* the directory and the data of the file bytes, against the writer that
\* to_writer returned for the font
DirectoryHolds(bytes, writer, font) ==
    /\ TableCount(bytes) = Len(writer.tables)
    /\ [i \in 1..Len(writer.tables) |-> writer.tables[i].tag] = WrittenTags(font)
    /\ \A i \in 1..(Len(writer.tables) - 1) :
           writer.tables[i].offset + writer.tables[i].length <= writer.tables[i + 1].offset
    /\ \A i \in 0..(TableCount(bytes) - 2) :
           tag_less(Record(bytes, i).tag, Record(bytes, i + 1).tag)
    /\ \A i \in 0..(TableCount(bytes) - 1) :
           /\ Record(bytes, i).offset % 4 = 0
           /\ Record(bytes, i).offset >= 12 + 16 * TableCount(bytes)
           /\ Record(bytes, i).offset + Record(bytes, i).length <= Len(bytes)
           /\ \A j \in 0..(TableCount(bytes) - 1) :
                  j # i => \/ Record(bytes, i).offset + Record(bytes, i).length
                                 <= Record(bytes, j).offset
                           \/ Record(bytes, j).offset + Record(bytes, j).length
                                 <= Record(bytes, i).offset
           /\ \E k \in 1..Len(writer.tables) :
                  /\ writer.tables[k].tag = Record(bytes, i).tag
                  /\ Record(bytes, i).offset
                         = 12 + 16 * TableCount(bytes) + writer.tables[k].offset
                  /\ Record(bytes, i).length = writer.tables[k].length
                  /\ \A b \in 0..(Record(bytes, i).length - 1) :
                         \/ bytes[Record(bytes, i).offset + b + 1]
                                = writer.table_data[writer.tables[k].offset + b + 1]
                         \/ /\ Record(bytes, i).tag = TAG_HEAD
                            /\ b \in HEAD_CHECKSUM_OFFSET..(HEAD_CHECKSUM_OFFSET + 3)

\* C18: in the to_opentype output the directory is strictly ascending by
\* tag, while the table data stays in the order of the writes (cmap, [cvt ],
\* [fpgm], hmtx, hhea, maxp, name, OS/2, post, [prep], glyf, loca, head); the
\* offset of a record is 12 + 16 * numTables plus the offset recorded at the
\* write and a multiple of 4; the ranges are pairwise disjoint and inside the
\* file, and a tag points to the bytes written for it (but for the checksum
\* adjustment of head).
C18_DirectorySorted ==
    Written => DirectoryHolds(output, to_writer(sourceFont.v, subset).v, sourceFont.v)

\* C18 witness: an output with the cvt, fpgm and prep tables, whose first
\* record (OS/2) is not the first table written (cmap)
C18_Witness ==
    /\ Written
    /\ TableCount(output) = 13
    /\ Record(output, 0).tag = TAG_OS2
    /\ Record(output, 1).tag = TAG_CMAP
    /\ Record(output, 1).offset = 12 + 16 * 13
    /\ Record(output, 0).offset > Record(output, 1).offset

\* ---- a reader of the WOFF2 file ----

\* the decoder of BrotliCompress
BrotliDecompress(bytes) == BytesFrom(bytes, 1 + bytes[1])

\* the number of bytes of the UIntBase128 number at the offset pos
RECURSIVE UIntBase128Size(_, _)
UIntBase128Size(bytes, pos) ==
    IF bytes[pos + 1] >= 128 THEN 1 + UIntBase128Size(bytes, pos + 1) ELSE 1

\* the n directory entries at the offset pos: the flags, the length, the
\* size of the entry
RECURSIVE Woff2Entries(_, _, _)
Woff2Entries(bytes, pos, n) ==
    IF n = 0 THEN <<>>
    ELSE <<[flags |-> bytes[pos + 1],
            length |-> U32ToInt(B128Decode(
                           Slice(bytes, pos + 1, pos + 1 + UIntBase128Size(bytes, pos + 1)))),
            size |-> 1 + UIntBase128Size(bytes, pos + 1)]>>
         \o Woff2Entries(bytes, pos + 1 + UIntBase128Size(bytes, pos + 1), n - 1)

RECURSIVE SumOf(_, _)
SumOf(f, n) == IF n = 0 THEN 0 ELSE SumOf(f, n - 1) + f[n]

\* the number of bytes of a UIntBase128 number: ceil((floor(log2 v) + 1) / 7)
UIntBase128SizeOf(v) ==
    IF v < 128 THEN 1
    ELSE IF v < 16384 THEN 2
    ELSE IF v < 2097152 THEN 3
    ELSE IF v < 268435456 THEN 4
    ELSE 5

\* the length of the header of the file bytes is the length of the file, a
\* multiple of 4, and 48 + the sizes of the entries of the records + the
\* compressed size, rounded up; the entries take that many bytes
Woff2LengthHolds(bytes, records, entries) ==
    /\ U32ToInt(u32_at(bytes, 8)) = Len(bytes)
    /\ Len(bytes) % 4 = 0
    /\ u16_at(bytes, 12) = Len(records)
    /\ Len(bytes) - (WOFF2_HEADER_LEN
                     + SumOf([i \in 1..Len(records) |->
                                 1 + UIntBase128SizeOf(records[i].length)], Len(records))
                     + U32ToInt(u32_at(bytes, 20))) \in 0..3
    /\ SumOf([i \in 1..Len(entries) |-> entries[i].size], Len(entries))
           = SumOf([i \in 1..Len(records) |->
                       1 + UIntBase128SizeOf(records[i].length)], Len(records))
    /\ \A i \in 1..Len(entries) : entries[i].length = records[i].length
    /\ \A k \in (WOFF2_HEADER_LEN
                  + SumOf([i \in 1..Len(entries) |-> entries[i].size], Len(entries))
                  + U32ToInt(u32_at(bytes, 20)) + 1)..Len(bytes) : bytes[k] = 0

\* C19: the length field of the WOFF2 header is the length of the to_woff2
\* output, a multiple of 4: 48 + the sum over the records of
\* (1 + uint_base128_len(record.length)) + the compressed size, rounded up to
\* a multiple of 4; the directory entries written take that sum of bytes.
C19_Woff2Length ==
    phase = "woff2_written" =>
        Woff2LengthHolds(woff2, to_writer(sourceFont.v, subset).v.tables,
                         Woff2Entries(woff2, WOFF2_HEADER_LEN, u16_at(woff2, 12)))

\* C19 witness: an output with a table of 128 bytes or more (an entry of 3
\* bytes) that ends with padding
C19_Witness ==
    /\ phase = "woff2_written"
    /\ \E i \in 1..u16_at(woff2, 12) :
           Woff2Entries(woff2, WOFF2_HEADER_LEN, u16_at(woff2, 12))[i].size = 3
    /\ (WOFF2_HEADER_LEN
          + SumOf([i \in 1..u16_at(woff2, 12) |->
                Woff2Entries(woff2, WOFF2_HEADER_LEN, u16_at(woff2, 12))[i].size],
                u16_at(woff2, 12))
          + U32ToInt(u32_at(woff2, 20))) % 4 = 3
    /\ U32ToInt(u32_at(woff2, 8)) = Len(woff2)

\* the offsets of the tables in the decompressed stream: the tables follow
\* each other in the order of the entries
RECURSIVE StreamOffset(_, _)
StreamOffset(entries, i) ==
    IF i = 1 THEN 0 ELSE StreamOffset(entries, i - 1) + entries[i - 1].length

\* the bytes of a head table with a zero checksum adjustment
ZeroAdjustment(tag, table) ==
    IF tag # TAG_HEAD THEN table
    ELSE [k \in 1..Len(table) |->
             IF k \in (HEAD_CHECKSUM_OFFSET + 1)..(HEAD_CHECKSUM_OFFSET + 4) THEN 0
             ELSE table[k]]

\* the decompressed stream of the file: the compressed data follows the
\* entries
Woff2Stream(bytes, entries) ==
    BrotliDecompress(Slice(bytes,
        WOFF2_HEADER_LEN + SumOf([i \in 1..Len(entries) |-> entries[i].size], Len(entries)),
        WOFF2_HEADER_LEN + SumOf([i \in 1..Len(entries) |-> entries[i].size], Len(entries))
            + U32ToInt(u32_at(bytes, 20))))

\* the entries and the decompressed stream of a WOFF2 file, against the
\* writer that to_writer returned
Woff2RoundTrip(writer, entries, stream) ==
    /\ Len(entries) = Len(writer.tables)
    /\ \A i \in 1..Len(entries) :
           /\ entries[i].flags % 64 = woff2_flags(writer.tables[i].tag) % 64
           /\ entries[i].flags \div 64
                  = (IF writer.tables[i].tag \in {TAG_GLYF, TAG_LOCA} THEN 3 ELSE 0)
           /\ entries[i].length = writer.tables[i].length
           /\ ZeroAdjustment(writer.tables[i].tag,
                  Slice(stream, StreamOffset(entries, i),
                        StreamOffset(entries, i) + entries[i].length))
                  = Slice(writer.table_data, writer.tables[i].offset,
                          writer.tables[i].offset + writer.tables[i].length)
    /\ Len(stream) = StreamOffset(entries, Len(entries)) + entries[Len(entries)].length

\* C20: WOFF2 directory round trip (Brotli as a lossless encoder).  The
\* directory entries of the to_woff2 output are in the order of the writes,
\* which is the order of the tables in the compressed stream, and the
\* Base-128 length of an entry is the number of bytes of its table in the
\* stream; so for every record r a WOFF2 reader recovers the writer's
\* table_data[r.offset .. r.offset + r.length], the checksum adjustment of
\* head taken for zero.
C20_Woff2RoundTrip ==
    phase = "woff2_written" =>
        Woff2RoundTrip(
            to_writer(sourceFont.v, subset).v,
            Woff2Entries(woff2, WOFF2_HEADER_LEN, u16_at(woff2, 12)),
            Woff2Stream(woff2, Woff2Entries(woff2, WOFF2_HEADER_LEN, u16_at(woff2, 12))))

\* C20 witness: an output of 13 tables, with tables of a length that is not
\* a multiple of 4 before the last, and a non-zero checksum adjustment in
\* the head of the stream
C20_Witness ==
    /\ phase = "woff2_written"
    /\ u16_at(woff2, 12) = 13
    /\ Woff2Entries(woff2, WOFF2_HEADER_LEN, 13)[1].flags = 0
    /\ Woff2Entries(woff2, WOFF2_HEADER_LEN, 13)[2].flags = 8
    /\ Woff2Entries(woff2, WOFF2_HEADER_LEN, 13)[11].flags = 10 + NULL_TRANSFORM
    /\ Woff2Entries(woff2, WOFF2_HEADER_LEN, 13)[13].flags = 1
    /\ \E i \in 1..12 : Woff2Entries(woff2, WOFF2_HEADER_LEN, 13)[i].length % 4 # 0
    /\ Slice(Woff2Stream(woff2, Woff2Entries(woff2, WOFF2_HEADER_LEN, 13)),
             StreamOffset(Woff2Entries(woff2, WOFF2_HEADER_LEN, 13), 13)
                 + HEAD_CHECKSUM_OFFSET,
             StreamOffset(Woff2Entries(woff2, WOFF2_HEADER_LEN, 13), 13)
                 + HEAD_CHECKSUM_OFFSET + 4) # <<0, 0, 0, 0>>

\* a glyph without the glyph indices of its components
WithoutComponentIdx(glyph) ==
    [glyph EXCEPT !.inner.components =
        [i \in 1..Len(@) |-> [@[i] EXCEPT !.glyph_idx = 0]]]

\* C25: the state of the subset builder.  After FontSubset::empty and after
\* any sequence of successful push_char calls, old_to_new_glyph_idx is
\* injective, has 0 -> 0, its image is {0, ..., glyphs.len() - 1}, glyphs[0]
\* is glyph 0 of the source, every mapped source glyph is stored once, at its
\* new index, and ensure_glyph of a mapped glyph returns the recorded index
\* and leaves the subset as it is.
C25_BuilderInvariant ==
    phase = "build" =>
        /\ 0 \in DOMAIN subset.old_to_new_glyph_idx
        /\ subset.old_to_new_glyph_idx[0] = 0
        /\ \A a, b \in DOMAIN subset.old_to_new_glyph_idx :
               subset.old_to_new_glyph_idx[a] = subset.old_to_new_glyph_idx[b] => a = b
        /\ {subset.old_to_new_glyph_idx[a] : a \in DOMAIN subset.old_to_new_glyph_idx}
               = 0..(Len(subset.glyphs) - 1)
        /\ subset.glyphs[1] = Font_glyph(sourceFont.v, 0).v
        /\ \A a \in DOMAIN subset.old_to_new_glyph_idx :
               /\ WithoutComponentIdx(subset.glyphs[subset.old_to_new_glyph_idx[a] + 1])
                      = WithoutComponentIdx(Font_glyph(sourceFont.v, a).v)
               /\ ensure_glyph(sourceFont.v, subset, a, 1)
                      = E_Ok(subset, subset.old_to_new_glyph_idx[a])

\* C25 witness: two chars of the same glyph were pushed; the glyph is
\* stored once
C25_Witness ==
    /\ phase = "build"
    /\ pending = <<>>
    /\ Len(subset.char_map) = 2
    /\ subset.char_map[1][2] = subset.char_map[2][2]
    /\ subset.char_map[1][2] # 0
    /\ Len(subset.glyphs) = 2

\* the new glyph indices the components of the stored glyph n refer to
ComponentIdx(self, n) ==
    {self.glyphs[n + 1].inner.components[k].glyph_idx :
         k \in 1..Len(self.glyphs[n + 1].inner.components)}

\* the new glyph indices reached from the set through at most `fuel`
\* component references
RECURSIVE ReachedFrom(_, _, _)
ReachedFrom(self, from, fuel) ==
    IF fuel = 0 THEN from
    ELSE ReachedFrom(self,
             from \cup UNION {ComponentIdx(self, n) :
                                  n \in from \cap (0..(Len(self.glyphs) - 1))},
             fuel - 1)

C26_GlyphOrderButNotdef ==
    phase = "build" =>
        /\ \A i, j \in 1..Len(subset.char_map) :
               i < j =>
                   /\ subset.char_map[i][1] < subset.char_map[j][1]
                   /\ subset.char_map[j][2]
                          \in ReachedFrom(subset,
                                  {0} \cup {subset.char_map[k][2] : k \in 1..i},
                                  Len(subset.glyphs))
                      \/ subset.char_map[j][2] > subset.char_map[i][2]
        /\ \A n \in 1..(Len(subset.glyphs) - 1) :
               \A c \in ComponentIdx(subset, n) : c < n

\* the directory of the file has a record with the tag
HasTable(bytes, tag) ==
    \E i \in 0..(TableCount(bytes) - 1) : Record(bytes, i).tag = tag

\* the table of the output is the table of the source file but for the
\* bytes from..to - 1
SameButFor(tag, from, to) ==
    /\ Len(TableBytes(output, tag)) = Len(TableBytes(FontFiles[fontId], tag))
    /\ \A k \in 1..Len(TableBytes(output, tag)) :
           k - 1 \in from..(to - 1)
           \/ TableBytes(output, tag)[k] = TableBytes(FontFiles[fontId], tag)[k]

\* C27: the per-table rewrites change the documented fields only.  The maxp
\* of the output is the maxp of the source but for bytes 4..6, which hold
\* glyphs.len(); hhea is the source hhea but for its last u16, the new
\* numberOfHMetrics; head is the source head but for bytes 8..12 and 50..52;
\* name, OS/2, cvt, fpgm and prep are the bytes of the source tables, each in
\* the output exactly when it is in the source.
C27_TableFrames ==
    Written =>
        /\ SameButFor(TAG_MAXP, 4, 6)
        /\ u16_at(TableBytes(output, TAG_MAXP), 4) = Len(subset.glyphs)
        /\ SameButFor(TAG_HHEA, HHEA_EXPECTED_LEN - 2, HHEA_EXPECTED_LEN)
        /\ u16_at(TableBytes(output, TAG_HHEA), HHEA_EXPECTED_LEN - 2)
               = write_for_glyphs_result(subset.glyphs)
        /\ Len(TableBytes(output, TAG_HEAD)) = Len(TableBytes(FontFiles[fontId], TAG_HEAD))
        /\ \A k \in 1..Len(TableBytes(output, TAG_HEAD)) :
               \/ k - 1 \in HEAD_CHECKSUM_OFFSET..(HEAD_CHECKSUM_OFFSET + 3)
               \/ k - 1 \in LOCA_FORMAT_OFFSET..(LOCA_FORMAT_OFFSET + 1)
               \/ TableBytes(output, TAG_HEAD)[k] = TableBytes(FontFiles[fontId], TAG_HEAD)[k]
        /\ \A tag \in {TAG_NAME, TAG_OS2, TAG_CVT, TAG_FPGM, TAG_PREP} :
               /\ HasTable(output, tag) <=> HasTable(FontFiles[fontId], tag)
               /\ HasTable(output, tag)
                      => TableBytes(output, tag) = TableBytes(FontFiles[fontId], tag)

\* C27 witness: an output of a font with cvt, fpgm and prep whose glyph
\* count and numberOfHMetrics differ from the source's
C27_Witness ==
    /\ Written
    /\ HasTable(output, TAG_CVT)
    /\ HasTable(output, TAG_FPGM)
    /\ HasTable(output, TAG_PREP)
    /\ TableBytes(output, TAG_MAXP) # TableBytes(FontFiles[fontId], TAG_MAXP)
    /\ TableBytes(output, TAG_HHEA) # TableBytes(FontFiles[fontId], TAG_HHEA)

\* C27 witness: an output without cvt, fpgm and prep, of a font without
\* them
C27_WitnessWithout ==
    /\ Written
    /\ ~HasTable(output, TAG_CVT)
    /\ ~HasTable(output, TAG_FPGM)
    /\ ~HasTable(output, TAG_PREP)

\* the OpenType file and the entries and decompressed stream of the WOFF2
\* file of one writer carry the same bytes for every table
SerializationsAgree(opentype, totalSfntSize, writer, entries, stream) ==
    /\ totalSfntSize = Len(opentype)
    /\ Len(opentype) = data_offset(writer) + Len(writer.table_data)
    /\ TableCount(opentype) = Len(entries)
    /\ \A i \in 1..Len(entries) :
           Slice(stream, StreamOffset(entries, i),
                 StreamOffset(entries, i) + entries[i].length)
               = TableBytes(opentype, writer.tables[i].tag)
    /\ BytesFrom(opentype, data_offset(writer))
           = Concat([i \in 1..Len(entries) |->
                 Slice(stream, StreamOffset(entries, i),
                       StreamOffset(entries, i) + entries[i].length)
                 \o zero_padding(entries[i].length)])

\* C28: the two serializations agree on the table data.  For one FontSubset
\* the tables compressed by to_woff2 are, byte for byte, the tables that
\* to_opentype appends after the directory, the checksum adjustment of head
\* included, and totalSfntSize of the WOFF2 header is the length of the
\* to_opentype output.
C28_SerializationsAgree ==
    phase = "woff2_written" =>
        SerializationsAgree(
            to_truetype(sourceFont.v, subset).v,
            U32ToInt(u32_at(woff2, 16)),
            to_writer(sourceFont.v, subset).v,
            Woff2Entries(woff2, WOFF2_HEADER_LEN, u16_at(woff2, 12)),
            Woff2Stream(woff2, Woff2Entries(woff2, WOFF2_HEADER_LEN, u16_at(woff2, 12))))

\* C28 witness: a WOFF2 output of a subset of three glyphs or more whose
\* OpenType output has a non-zero checksum adjustment in head
C28_Witness ==
    /\ phase = "woff2_written"
    /\ Len(subset.glyphs) >= 3
    /\ U32ToInt(u32_at(woff2, 16)) > 12 + 16 * 10
    /\ Slice(TableBytes(to_truetype(sourceFont.v, subset).v, TAG_HEAD),
             HEAD_CHECKSUM_OFFSET, HEAD_CHECKSUM_OFFSET + 4) # <<0, 0, 0, 0>>

(***************************************************************************)
(* Specification SpecWriter: a FontWriter filled by write_table and        *)
(* write_raw_table, adjusted as into_opentype and into_woff2 do, and read  *)
(* by a TableDataReader with buffers of 1 .. MaxChunk bytes.               *)
(***************************************************************************)
\* the most tables written
MaxTables == 3

\* the longest buffer passed to read
MaxChunk == 3

\* the tag of the k-th table written by write_raw_table
FwRawTags == <<TAG_CVT, TAG_NAME, TAG_OS2, TAG_POST, TAG_PREP>>

FwContents == {<<>>, <<1>>, <<1, 2, 3, 4, 5>>}

InitWriter ==
    /\ fw_pc = "writing"
    /\ fw = FontWriter_default
    /\ rd = [data_offset |-> 0, table_idx |-> 0, pos_in_table |-> 0]
    /\ rd_out = <<>>
    /\ rd_last = -1
    /\ rd_eof = FALSE
    /\ B128Idle
    /\ CmIdle
    /\ SubIdle
    /\ LocaIdle
    /\ CrIdle
    /\ HmIdle

\* writer.write_raw_table(tag, content)
FwWriteRawTable ==
    /\ fw_pc = "writing"
    /\ Len(fw.tables) < MaxTables
    /\ \E content \in FwContents :
           fw' = write_raw_table(fw, FwRawTags[Len(fw.tables) + 1], content)
    /\ UNCHANGED <<fw_pc, rd, rd_out, rd_last, rd_eof, b128vars, cmvars, subvars,
                   locavars, crvars, hmvars>>

\* writer.write_table(TableTag::HEAD, |buffer| write_head_table(..)), once
FwWriteTable ==
    /\ fw_pc = "writing"
    /\ Len(fw.tables) < MaxTables
    /\ find_table(fw.tables, TAG_HEAD, 1) = 0
    /\ fw' = write_table(fw, TAG_HEAD,
                 write_head_table(HeadTableBytes("Long"), "Short", fw.table_data))
    /\ UNCHANGED <<fw_pc, rd, rd_out, rd_last, rd_eof, b128vars, cmvars, subvars,
                   locavars, crvars, hmvars>>

\* self.adjust_data(Font::checksum(&self.write_sfnt_header())): ilog2 of no
\* tables and the search of a head table that is not there panic
FwAdjustData ==
    /\ fw_pc = "writing"
    /\ IF fw.tables = <<>> \/ find_table(fw.tables, TAG_HEAD, 1) = 0
       THEN /\ fw_pc' = "panic"
            /\ fw' = fw
       ELSE /\ fw_pc' = "adjusted"
            /\ fw' = adjust_data(fw, Font_checksum(write_sfnt_header(fw)))
    /\ UNCHANGED <<rd, rd_out, rd_last, rd_eof, b128vars, cmvars, subvars,
                   locavars, crvars, hmvars>>

\* TableDataReader::new(&writer)
FwReaderNew ==
    /\ fw_pc \in {"writing", "adjusted"}
    /\ \E new \in {TableDataReader_new(fw)} :
           IF IsOk(new)
           THEN /\ fw_pc' = "reading"
                /\ rd' = new.v
           ELSE /\ fw_pc' = "reader_panic"
                /\ rd' = rd
    /\ UNCHANGED <<fw, rd_out, rd_last, rd_eof, b128vars, cmvars, subvars,
                   locavars, crvars, hmvars>>

\* data_reader.read(data) for a buffer of 1 .. MaxChunk bytes
FwRead ==
    /\ fw_pc = "reading"
    /\ \E len \in 1..MaxChunk :
           \E result \in {TableDataReader_read(fw, rd, len)} :
               IF result.tag = "Ok"
               THEN /\ rd' = result.self
                    /\ rd_out' = rd_out \o result.data
                    /\ rd_last' = Len(result.data)
                    /\ rd_eof' = (rd_eof \/ Len(result.data) = 0)
                    /\ fw_pc' = fw_pc
               ELSE /\ fw_pc' = "reader_panic"
                    /\ UNCHANGED <<rd, rd_out, rd_last, rd_eof>>
    /\ UNCHANGED <<fw, b128vars, cmvars, subvars, locavars, crvars, hmvars>>

NextWriter ==
    FwWriteRawTable \/ FwWriteTable \/ FwAdjustData \/ FwReaderNew \/ FwRead

SpecWriter == InitWriter /\ [][NextWriter]_vars

\* the sum of the lengths of the first n records
RECURSIVE LengthSum(_, _)
LengthSum(tables, n) ==
    IF n = 0 THEN 0 ELSE LengthSum(tables, n - 1) + tables[n].length

\* C21: the input reader of the Brotli encoder.  Whatever the sizes of the
\* non-empty buffers passed to read, the bytes yielded so far are the start
\* of the tables' data, table after table in the order of the records and
\* without the padding between them; their number is the sum of the lengths
\* of the tables passed plus pos_in_table, which never exceeds the length of
\* the current table; read returns 0 only when all the bytes of all tables
\* were yielded (their number is the sum of record.length), and once it has
\* returned 0 it returns 0 again.
C21_ReaderYieldsTables ==
    fw_pc \in {"reading", "reader_panic"} =>
        /\ fw_pc = "reading"
        /\ rd_out = SubSeq(table_data_read(fw), 1, Len(rd_out))
        /\ Len(table_data_read(fw)) = LengthSum(fw.tables, Len(fw.tables))
        /\ rd.table_idx <= Len(fw.tables)
        /\ Len(rd_out) = LengthSum(fw.tables, rd.table_idx) + rd.pos_in_table
        /\ rd.table_idx < Len(fw.tables)
               => rd.pos_in_table <= fw.tables[rd.table_idx + 1].length
        /\ rd.table_idx = Len(fw.tables) => rd.pos_in_table = 0
        /\ rd_last = 0 => rd_out = table_data_read(fw)
        /\ rd_eof => rd_last = 0

\* C21 witness: a reader of three tables, one of them empty, with shifted
\* offsets, has returned 0 after it yielded all their bytes
C21_Witness ==
    /\ fw_pc = "reading"
    /\ Len(fw.tables) = 3
    /\ \E i \in 1..3 : fw.tables[i].length = 0
    /\ \E i \in 1..3 : fw.tables[i].length % 4 = 1
    /\ rd.data_offset > 0
    /\ rd_eof
    /\ Len(rd_out) > 50

\* C21 witness: one call of read has filled its buffer from two tables
C21_WitnessAcross ==
    /\ fw_pc = "reading"
    /\ rd_last = 3
    /\ rd.table_idx >= 1
    /\ rd.pos_in_table \in 1..2

\* the invariant of a FontWriter whose offsets start at base: the data and
\* the offsets are multiples of 4, every record starts where the record
\* before it ends, rounded up to 4, the bytes between them are zero, and the
\* checksum of a record is the checksum of `data` applied to its tag and
\* bytes, zero-padded
WriterInvariant(self, base, data(_, _)) ==
    /\ Len(self.table_data) % 4 = 0
    /\ \A i \in 1..Len(self.tables) :
           /\ self.tables[i].offset % 4 = 0
           /\ self.tables[i].offset >= base
           /\ (IF i < Len(self.tables) THEN self.tables[i + 1].offset
               ELSE base + Len(self.table_data))
                  = self.tables[i].offset + self.tables[i].length
                        + Len(zero_padding(self.tables[i].length))
           /\ Slice(self.table_data,
                    self.tables[i].offset - base + self.tables[i].length,
                    self.tables[i].offset - base + self.tables[i].length
                        + Len(zero_padding(self.tables[i].length)))
                  = zero_padding(self.tables[i].length)
           /\ self.tables[i].checksum
                  = Font_checksum(
                        data(self.tables[i].tag,
                             Slice(self.table_data, self.tables[i].offset - base,
                                   self.tables[i].offset - base + self.tables[i].length))
                        \o zero_padding(self.tables[i].length))
    /\ \A i \in 1..(Len(self.tables) - 1) :
           /\ self.tables[i].offset < self.tables[i + 1].offset
               \/ self.tables[i].length = 0
           /\ self.tables[i].offset + self.tables[i].length
                  <= self.tables[i + 1].offset

\* the bytes of a table as they are
AsWritten(tag, table) == table

\* what the offsets of the writer start at: 0 before adjust_data, the data
\* offset after it
FwBase ==
    IF fw_pc = "adjusted" THEN data_offset(fw)
    ELSE IF fw_pc = "reading" THEN rd.data_offset
    ELSE 0

\* C29 as stated: the invariant of the FontWriter holds after any sequence
\* of write_table and write_raw_table calls and still holds after
\* adjust_data, every checksum being the checksum of the zero-padded data
\* of its record; the debug assertion of TableDataReader::new never fails.
C29_WriterInvariant ==
    /\ fw_pc \in {"writing", "adjusted", "reading"}
           => WriterInvariant(fw, FwBase, AsWritten)
    /\ fw_pc # "reader_panic"

\* C29, amended: the invariant of the FontWriter holds after any sequence
\* of write_table and write_raw_table calls, and after adjust_data with the
\* offsets taken from the data offset and the checksum of head being the
\* checksum of its data with a zero checksum adjustment; the debug
\* assertion of TableDataReader::new never fails.
C29_WriterInvariantZeroed ==
    /\ fw_pc \in {"writing", "adjusted", "reading"}
           => WriterInvariant(fw, FwBase, ZeroAdjustment)
    /\ fw_pc = "writing" => WriterInvariant(fw, 0, AsWritten)
    /\ fw_pc # "reader_panic"

\* C29 witness: a reader was made of an adjusted writer of three tables
\* with padding between them, whose head has a non-zero checksum adjustment
C29_Witness ==
    /\ fw_pc = "reading"
    /\ Len(fw.tables) = 3
    /\ rd.data_offset = data_offset(fw)
    /\ fw.tables[1].length % 4 # 0
    /\ fw.tables[2].tag = TAG_HEAD
    /\ Slice(fw.table_data, fw.tables[2].offset - rd.data_offset + HEAD_CHECKSUM_OFFSET,
             fw.tables[2].offset - rd.data_offset + HEAD_CHECKSUM_OFFSET + 4)
           # <<0, 0, 0, 0>>

(***************************************************************************)
(* Specification SpecCmapRead: CmapTable::parse applied to cmap tables of  *)
(* up to MaxRecords encoding records and to format-4 subtables of several  *)
(* segment lists, then CmapTable::map_char.                                *)
(***************************************************************************)
\* the most encoding records of a cmap table
MaxRecords == 2

\* a format-4 subtable, as a font file holds it
Format4Subtable(segments, glyph_id_array) ==
    u16_be_bytes(4)
    \o u16_be_bytes(16 + 8 * Len(segments) + Len(glyph_id_array))
    \o u16_be_bytes(0)
    \o u16_be_bytes(2 * Len(segments))
    \o <<0, 0, 0, 0, 0, 0>>
    \o Concat([i \in 1..Len(segments) |-> u16_be_bytes(segments[i].end_code)])
    \o <<0, 0>>
    \o Concat([i \in 1..Len(segments) |-> u16_be_bytes(segments[i].start_code)])
    \o Concat([i \in 1..Len(segments) |-> u16_be_bytes(segments[i].id_delta)])
    \o Concat([i \in 1..Len(segments) |-> u16_be_bytes(segments[i].id_range_offset)])
    \o glyph_id_array

\* a format-12 subtable of one group
Format12Subtable(start_char_code, end_char_code, start_glyph_id) ==
    u16_be_bytes(12) \o u16_be_bytes(0) \o <<0, 0, 0, 28>> \o <<0, 0, 0, 0>>
    \o <<0, 0, 0, 1>>
    \o <<0, 0>> \o u16_be_bytes(start_char_code)
    \o <<0, 0>> \o u16_be_bytes(end_char_code)
    \o <<0, 0>> \o u16_be_bytes(start_glyph_id)

\* the end of a segment list: 0xFFFF..0xFFFF with idDelta 1
SentinelSegment == SegmentWithDelta(65535, 65535, 1, 0)

\* the subtables of the cmap tables below: two of format 4 (U+0041 -> 10,
\* U+0041 -> 20), two of format 12 (U+0041 -> 30, U+0041 -> 40), one of
\* format 6
CrSubtables ==
    <<Format4Subtable(<<SegmentWithDelta(65, 65, 65481, 0), SentinelSegment>>, <<>>),
      Format4Subtable(<<SegmentWithDelta(65, 65, 65491, 0), SentinelSegment>>, <<>>),
      Format12Subtable(65, 65, 30),
      Format12Subtable(65, 65, 40),
      <<0, 6, 0, 10, 0, 0, 0, 65, 0, 0>>>>

\* a cmap table of version 0 with the encoding records <<platform,
\* encoding, subtable>> and the subtables after them
CmapBytes(records, subtables) ==
    u16_be_bytes(0) \o u16_be_bytes(Len(records))
    \o Concat([i \in 1..Len(records) |->
           u16_be_bytes(records[i][1]) \o u16_be_bytes(records[i][2])
           \o u32_be_bytes(U32FromInt(
                  4 + 8 * Len(records)
                  + SumOf([j \in 1..Len(subtables) |-> Len(subtables[j])],
                          records[i][3] - 1)))])
    \o Concat(subtables)

\* the encoding records: the four pairs CmapTable::parse supports with a
\* subtable of their format, two pairs it does not support, and two
\* supported pairs with a subtable of another format
CrRecordKinds ==
    {<<0, 3, 1>>, <<3, 1, 2>>, <<0, 4, 3>>, <<3, 10, 4>>,
     <<1, 0, 2>>, <<3, 0, 1>>, <<0, 3, 5>>, <<3, 10, 1>>}

RECURSIVE CrRecordLists(_)
CrRecordLists(n) ==
    IF n = 0 THEN {<<>>}
    ELSE {Append(records, kind) : records \in CrRecordLists(n - 1), kind \in CrRecordKinds}

\* segment lists with ascending end codes: U+0041..U+0042 by its delta or
\* not at all, U+0044 by its delta, through glyphIdArray or not at all,
\* with or without the sentinel; `indexed` segments get the idRangeOffset
\* of the first entry of glyphIdArray
CrSegmentLists ==
    {[i \in 1..Len(raw) |->
         SegmentWithDelta(raw[i][1], raw[i][2], raw[i][3],
                          IF raw[i][4] THEN 2 * (Len(raw) - (i - 1)) ELSE 0)] :
     raw \in {a \o b \o c :
                 a \in {<<>>, <<<<65, 66, 5, FALSE>>>>, <<<<65, 66, 65500, FALSE>>>>},
                 b \in {<<>>, <<<<68, 68, 3, FALSE>>>>, <<<<68, 68, 3, TRUE>>>>,
                        <<<<68, 68, 0, TRUE>>>>},
                 c \in {<<>>, <<<<65535, 65535, 1, FALSE>>>>}}}

CrGlyphIdArrays == {<<>>, <<0, 0>>, <<0, 7>>}

CrTables ==
    {CmapBytes(records, CrSubtables) :
         records \in UNION {CrRecordLists(n) : n \in 0..MaxRecords}}
    \cup {CmapBytes(<<<<0, 3, 1>>>>, <<Format4Subtable(segments, glyph_id_array)>>) :
              segments \in CrSegmentLists, glyph_id_array \in CrGlyphIdArrays}

CrChars == {64, 65, 66, 67, 68, 69, 65535, 65536}

InitCmapRead ==
    /\ cr_pc = "start"
    /\ cr_table \in CrTables
    /\ cr_parsed = R_Err("none")
    /\ cr_char = 0
    /\ cr_glyph = R_Err("none")
    /\ B128Idle
    /\ CmIdle
    /\ SubIdle
    /\ LocaIdle
    /\ FwIdle
    /\ HmIdle

\* CmapTable::parse(cursor)
CrParse ==
    /\ cr_pc = "start"
    /\ cr_parsed' = CmapTable_parse(cr_table)
    /\ cr_pc' = IF IsOk(cr_parsed') THEN "parsed" ELSE "rejected"
    /\ UNCHANGED <<cr_table, cr_char, cr_glyph, b128vars, cmvars, subvars, locavars,
                   fwvars, hmvars>>

\* cmap.map_char(ch); an index out of bounds ends the process
CrMapChar ==
    /\ cr_pc \in {"parsed", "mapped"}
    /\ \E ch \in CrChars :
           /\ cr_char' = ch
           /\ cr_glyph' = CmapTable_map_char(cr_parsed.v, ch)
    /\ cr_pc' = IF cr_glyph'.tag = "Panic" THEN "panic" ELSE "mapped"
    /\ UNCHANGED <<cr_table, cr_parsed, b128vars, cmvars, subvars, locavars,
                   fwvars, hmvars>>

NextCmapRead == CrParse \/ CrMapChar

SpecCmapRead == InitCmapRead /\ [][NextCmapRead]_vars

\* a char was looked up in a format-4 subtable
CrLookedUp ==
    /\ cr_pc \in {"mapped", "panic"}
    /\ cr_parsed.v.kind = "Deltas"
    /\ cr_char <= 65535

\* the segments with endCode >= c, by their place in the list
SegmentsFrom(segments, c) == {i \in 1..Len(segments) : segments[i].end_code >= c}

\* the first segment with endCode >= c, found by a scan of the list
FirstSegment(segments, c) ==
    CHOOSE i \in SegmentsFrom(segments, c) : \A j \in SegmentsFrom(segments, c) : i <= j

\* C22: the format-4 lookup of a BMP char c gives glyph 0 when no segment
\* has endCode >= c, and when the first such segment has startCode > c; it
\* does not fail, whatever segment list the parser accepted (an empty list
\* and a list without the 0xFFFF segment included).
C22_NoSegmentGivesZero ==
    (/\ CrLookedUp
     /\ \/ SegmentsFrom(cr_parsed.v.segments, cr_char) = {}
        \/ cr_parsed.v.segments[FirstSegment(cr_parsed.v.segments, cr_char)].start_code
               > cr_char)
        => cr_glyph = R_Ok(0)

\* the end codes ascend and the list ends with the 0xFFFF segment
SortedWithSentinel(segments) ==
    /\ segments # <<>>
    /\ \A i \in 1..(Len(segments) - 1) : segments[i].end_code < segments[i + 1].end_code
    /\ segments[Len(segments)].end_code = 65535

\* the index (from 0) of the glyphIdArray entry the OpenType format-4
\* lookup reads for c in segment i (from 1):
\* idRangeOffset / 2 + (c - startCode) - (segCount - (i - 1))
GlyphIdArrayIndex(segments, i, c) ==
    segments[i].id_range_offset \div 2 + (c - segments[i].start_code)
        - (Len(segments) - (i - 1))

\* the OpenType format-4 lookup of c in segment i (from 1)
Format4InSegment(segments, glyph_id_array, i, c) ==
    IF segments[i].start_code > c THEN 0
    ELSE IF segments[i].id_range_offset = 0
    THEN (segments[i].id_delta + c) % 65536
    ELSE IF u16_at(glyph_id_array, 2 * GlyphIdArrayIndex(segments, i, c)) = 0 THEN 0
    ELSE (u16_at(glyph_id_array, 2 * GlyphIdArrayIndex(segments, i, c))
              + segments[i].id_delta) % 65536

\* the lookup of c reads no glyphIdArray entry or one that is there
Format4Defined(segments, glyph_id_array, i, c) ==
    \/ segments[i].start_code > c
    \/ segments[i].id_range_offset = 0
    \/ /\ segments[i].id_range_offset % 2 = 0
       /\ GlyphIdArrayIndex(segments, i, c) >= 0
       /\ 2 * GlyphIdArrayIndex(segments, i, c) + 2 <= Len(glyph_id_array)

\* C23: agreement with the OpenType format-4 lookup.  For a subtable whose
\* segments are sorted by endCode and end with the 0xFFFF segment, and a
\* BMP char c, map_char returns what the lookup of the OpenType
\* specification gives: the first segment with endCode >= c is taken; with
\* idRangeOffset 0 the glyph is (idDelta + c) mod 2^16; else the entry of
\* glyphIdArray is read, 0 stands for the missing glyph 0 and any other
\* value gives (value + idDelta) mod 2^16.
C23_ReferenceLookup ==
    (/\ CrLookedUp
     /\ SortedWithSentinel(cr_parsed.v.segments)
     /\ Format4Defined(cr_parsed.v.segments, cr_parsed.v.glyph_id_array,
                       FirstSegment(cr_parsed.v.segments, cr_char), cr_char))
        => cr_glyph = R_Ok(Format4InSegment(cr_parsed.v.segments,
                               cr_parsed.v.glyph_id_array,
                               FirstSegment(cr_parsed.v.segments, cr_char), cr_char))

\* the kind of subtable a (platformID, encodingID) pair is a candidate of
CandidateKind(pair) ==
    IF pair \in {<<0, 3>>, <<3, 1>>} THEN "Deltas"
    ELSE IF pair \in {<<0, 4>>, <<3, 10>>} THEN "Coverage"
    ELSE "none"

\* the encoding records of cr_table that are candidates of the kinds, by
\* their place (from 1)
Candidates(kinds) ==
    {i \in 1..u16_at(cr_table, 2) :
         CandidateKind(<<u16_at(cr_table, 8 * i - 4), u16_at(cr_table, 8 * i - 2)>>)
             \in kinds}

\* the candidate met first
FirstCandidate(kinds) ==
    CHOOSE i \in Candidates(kinds) : \A j \in Candidates(kinds) : i <= j

\* the subtable of the encoding record i parsed as its pair asks
CandidateParse(i) ==
    IF U32ToInt(u32_at(cr_table, 8 * i)) > Len(cr_table) THEN R_Err("UnexpectedEof")
    ELSE IF CandidateKind(<<u16_at(cr_table, 8 * i - 4), u16_at(cr_table, 8 * i - 2)>>)
                = "Deltas"
    THEN SegmentDeltas_parse(BytesFrom(cr_table, U32ToInt(u32_at(cr_table, 8 * i))))
    ELSE SegmentedCoverage_parse(BytesFrom(cr_table, U32ToInt(u32_at(cr_table, 8 * i))))

\* two results are the same: both Ok with one value, or both the same error
SameResult(a, b) ==
    /\ a.tag = b.tag
    /\ IF IsOk(a) THEN a.v = b.v ELSE a.kind = b.kind

\* C24 as stated: of the encoding records, scanned in order, the first
\* candidate of each kind (format 4 for (0,3) and (3,1), format 12 for
\* (0,4) and (3,10)) is kept, later candidates of the kind are ignored and
\* records of other pairs are skipped; CmapTable::parse fails with
\* NoSupportedCmap if no candidate parses.
C24_FirstOfEachKind ==
    cr_pc \in {"parsed", "rejected", "mapped", "panic"} =>
        /\ \A kind \in {"Deltas", "Coverage"} :
               (/\ Candidates({kind}) # {}
                /\ IsOk(CandidateParse(FirstCandidate({kind}))))
                   => /\ IsOk(cr_parsed)
                      /\ cr_parsed.v.kind = kind
                             => SameResult(cr_parsed,
                                           CandidateParse(FirstCandidate({kind})))
        /\ (\A i \in Candidates({"Deltas", "Coverage"}) : ~IsOk(CandidateParse(i)))
               => SameResult(cr_parsed, R_Err("NoSupportedCmap"))

\* C24, amended: of the encoding records, scanned in order, the first
\* candidate of either kind is the one parsed and kept; every later
\* candidate, of its kind or of the other, is ignored, and records of other
\* pairs are skipped.  CmapTable::parse returns the error of parsing that
\* first candidate if it fails, and NoSupportedCmap if no record is a
\* candidate.
C24_FirstCandidate ==
    cr_pc \in {"parsed", "rejected", "mapped", "panic"} =>
        IF Candidates({"Deltas", "Coverage"}) = {}
        THEN SameResult(cr_parsed, R_Err("NoSupportedCmap"))
        ELSE SameResult(cr_parsed,
                        CandidateParse(FirstCandidate({"Deltas", "Coverage"})))

\* C24 witness: a record of another pair, then a format-12 candidate that
\* is kept; U+0041 is looked up in it
C24_Witness ==
    /\ cr_pc = "mapped"
    /\ u16_at(cr_table, 2) = 2
    /\ Candidates({"Deltas", "Coverage"}) = {2}
    /\ cr_parsed.v.kind = "Coverage"
    /\ cr_char = 65
    /\ cr_glyph = R_Ok(30)

\* C24 witness: the format-4 candidate met first is kept, the format-12
\* candidate after it is not
C24_WitnessBothKinds ==
    /\ cr_pc = "mapped"
    /\ Candidates({"Deltas"}) = {1}
    /\ Candidates({"Coverage"}) = {2}
    /\ cr_parsed.v.kind = "Deltas"
    /\ cr_char = 65
    /\ cr_glyph = R_Ok(10)

\* C24 witness: the first candidate fails to parse and its error is
\* returned, though the candidate after it parses
C24_WitnessError ==
    /\ cr_pc = "rejected"
    /\ Candidates({"Deltas", "Coverage"}) = {1, 2}
    /\ IsOk(CandidateParse(2))
    /\ SameResult(cr_parsed, R_Err("UnexpectedTableFormat"))

(***************************************************************************)
(* Specification SpecHmtx: HmtxTable::write_for_glyphs applied to lists of *)
(* 1 .. MaxHmtxGlyphs glyphs, and HmtxTable::advance_and_lsb applied to    *)
(* the bytes written for every glyph index.                                *)
(***************************************************************************)
\* the most glyphs of a list
MaxHmtxGlyphs == 3

HmMetrics == {[advance |-> a, lsb |-> l] : a \in {500, 600}, l \in {0, 20}}

RECURSIVE HmGlyphLists(_)
HmGlyphLists(n) ==
    IF n = 0 THEN {<<>>}
    ELSE {Append(glyphs, glyph) : glyphs \in HmGlyphLists(n - 1), glyph \in HmMetrics}

InitHmtx ==
    /\ hm_pc = "start"
    /\ hm_glyphs \in UNION {HmGlyphLists(n) : n \in 1..MaxHmtxGlyphs}
    /\ hm_written = [number_of_h_metrics |-> 0, bytes |-> <<>>]
    /\ B128Idle
    /\ CmIdle
    /\ SubIdle
    /\ LocaIdle
    /\ FwIdle
    /\ CrIdle

\* HmtxTable::write_for_glyphs(&glyphs, &mut buffer)
HmWrite ==
    /\ hm_pc = "start"
    /\ hm_written' = [number_of_h_metrics |-> write_for_glyphs_result(hm_glyphs),
                      bytes |-> HmtxTable_write_for_glyphs(hm_glyphs, <<>>)]
    /\ hm_pc' = "written"
    /\ UNCHANGED <<hm_glyphs, b128vars, cmvars, subvars, locavars, fwvars, crvars>>

\* hmtx.advance_and_lsb(i) for every glyph index i of the list, on the
\* written bytes with the returned numberOfHMetrics
HmRead ==
    /\ hm_pc = "written"
    /\ hm_written' =
           [number_of_h_metrics |-> hm_written.number_of_h_metrics,
            bytes |-> hm_written.bytes,
            metrics |-> [i \in 1..Len(hm_glyphs) |->
                           HmtxTable_advance_and_lsb(
                               [raw |-> hm_written.bytes,
                                number_of_h_metrics |-> hm_written.number_of_h_metrics],
                               i - 1)]]
    /\ hm_pc' = "read"
    /\ UNCHANGED <<hm_glyphs, b128vars, cmvars, subvars, locavars, fwvars, crvars>>

NextHmtx == HmWrite \/ HmRead

SpecHmtx == InitHmtx /\ [][NextHmtx]_vars

\* C30: the hmtx round trip.  For a non-empty glyph list, advance_and_lsb(i)
\* on the bytes write_for_glyphs produced, with the numberOfHMetrics it
\* returned, gives (glyphs[i].advance, glyphs[i].lsb) for every index
\* i < glyphs.len(), and the table is 4 * numberOfHMetrics
\* + 2 * (glyphs.len() - numberOfHMetrics) bytes long.
C30_HmtxRoundTrip ==
    /\ hm_pc \in {"written", "read"}
           => /\ hm_written.number_of_h_metrics \in 1..Len(hm_glyphs)
              /\ Len(hm_written.bytes)
                     = 4 * hm_written.number_of_h_metrics
                       + 2 * (Len(hm_glyphs) - hm_written.number_of_h_metrics)
    /\ hm_pc = "read"
           => \A i \in 1..Len(hm_glyphs) :
                  /\ IsOk(hm_written.metrics[i])
                  /\ hm_written.metrics[i].v.advance = hm_glyphs[i].advance
                  /\ hm_written.metrics[i].v.lsb = hm_glyphs[i].lsb

\* C30 witness: three glyphs were read back from a table of two full
\* metrics and one lsb
C30_Witness ==
    /\ hm_pc = "read"
    /\ Len(hm_glyphs) = 3
    /\ hm_written.number_of_h_metrics = 2
    /\ hm_glyphs[1].advance # hm_glyphs[2].advance
    /\ hm_glyphs[2].lsb # hm_glyphs[3].lsb
    /\ Len(hm_written.bytes) = 10

\* C30 witness: three glyphs of one advance, read back from a table of one
\* full metric
C30_WitnessOne ==
    /\ hm_pc = "read"
    /\ Len(hm_glyphs) = 3
    /\ hm_written.number_of_h_metrics = 1
    /\ Len(hm_written.bytes) = 8

====
